---- MODULE Spec2Model ----
(***************************************************************************)
(* Pool reconciliation of the PTM-detection pipeline                       *)
(* (scripts/user_defined_funcs.py): rename_pool_files, combine_pool_files, *)
(* separate_pool_files and handle_pool_files acting on a working           *)
(* directory of semicolon-separated sample files.                          *)
(*                                                                         *)
(* A file name and a cell of the 'Source File Mod' column are sequences of *)
(* one-character strings, so that the regular expressions of the code are  *)
(* evaluated on them character by character.  A file's content is the      *)
(* table pandas reads from it: its column names and its rows; the empty    *)
(* cell stands for NaN (to_csv writes NaN as the empty field and read_csv  *)
(* reads the empty field as NaN).                                          *)
(***************************************************************************)
EXTENDS Integers, Sequences, FiniteSets, TLC

\* ------------------------------------------------------------- bounds
\* Largest number of files in the initial working directory.
MaxFiles == 2
\* Largest number of handle_pool_files calls in one behaviour.
MaxOps == 2

\* ------------------------------------------------------- text helpers
Digits == {"0", "1", "2", "3", "4", "5", "6", "7", "8", "9"}

DigitVal(c) ==
    CASE c = "0" -> 0 [] c = "1" -> 1 [] c = "2" -> 2 [] c = "3" -> 3
      [] c = "4" -> 4 [] c = "5" -> 5 [] c = "6" -> 6 [] c = "7" -> 7
      [] c = "8" -> 8 [] c = "9" -> 9

\* p occurs in s starting at position i.
OccursAt(s, p, i) ==
    /\ i >= 1
    /\ i + Len(p) - 1 <= Len(s)
    /\ \A k \in 1..Len(p) : s[i + k - 1] = p[k]

\* Python's  p in s.
Contains(s, p) == \E i \in 1..(Len(s) + 1) : OccursAt(s, p, i)

\* Python's  s.endswith(p).
EndsWith(s, p) == OccursAt(s, p, Len(s) - Len(p) + 1)

\* Length of the maximal run of digits of s that starts at position i (\d+, greedy).
RECURSIVE DigitRun(_, _)
DigitRun(s, i) ==
    IF i <= Len(s) /\ s[i] \in Digits THEN 1 + DigitRun(s, i + 1) ELSE 0

\* int() of a sequence of digits.
RECURSIVE IntOf(_)
IntOf(ds) ==
    IF ds = <<>> THEN 0
    ELSE 10 * IntOf(SubSeq(ds, 1, Len(ds) - 1)) + DigitVal(ds[Len(ds)])

\* Python's  s.replace(old, ""), every occurrence, left to right.
RECURSIVE RemoveAll(_, _)
RemoveAll(s, old) ==
    IF s = <<>> THEN <<>>
    ELSE IF OccursAt(s, old, 1)
         THEN RemoveAll(SubSeq(s, Len(old) + 1, Len(s)), old)
         ELSE <<s[1]>> \o RemoveAll(Tail(s), old)

\* Positions of "." in a name after its first character.
DotPositions(name) == {i \in 2..Len(name) : name[i] = "."}

Max(S) == CHOOSE x \in S : \A y \in S : y <= x

Min(S) == CHOOSE x \in S : \A y \in S : x <= y

\* pathlib's  Path.stem  and  Path.suffix.
Stem(name) ==
    IF DotPositions(name) = {} \/ name[Len(name)] = "." THEN name
    ELSE SubSeq(name, 1, Max(DotPositions(name)) - 1)

Suffix(name) ==
    IF DotPositions(name) = {} \/ name[Len(name)] = "." THEN <<>>
    ELSE SubSeq(name, Max(DotPositions(name)), Len(name))

\* ------------------------------------------------ literals of the code
sCsv == <<".", "c", "s", "v">>
sPOOL == <<"P", "O", "O", "L">>
sPOOL_ == <<"P", "O", "O", "L", "_">>
sALL_POOLS == <<"A", "L", "L", "_", "P", "O", "O", "L", "S">>
s_ALL_POOLS == <<"_">> \o sALL_POOLS
s_POOLS_123 == <<"_", "P", "O", "O", "L", "S", "_", "1", "2", "3">>
s_POOL_ == <<"_">> \o sPOOL_
sPool_ == <<"P", "o", "o", "l", "_">>
sMgf == <<".", "m", "g", "f">>
sSEC == <<"S", "E", "C">>
sUC == <<"U", "C">>
TARGET == "Source File Mod"
HELPER == "Pool_Number"
NaN == <<>>

\* --------------------------------------- regular expressions of the code
\* re.search(r'POOL_\d', name): the name carries an individual-pool marker.
HasPoolDigit(name) ==
    \E i \in 1..Len(name) :
        OccursAt(name, sPOOL_, i) /\ DigitRun(name, i + Len(sPOOL_)) >= 1

\* 'ALL_POOLS' in name: the name carries the explicit combined marker.
HasAllPools(name) == Contains(name, sALL_POOLS)

\* re.search(r'POOL_(\d+)', name): int of the first match's digits, else 0.
extract_pool_number(name) ==
    LET starts == {i \in 1..Len(name) :
                      OccursAt(name, sPOOL_, i) /\ DigitRun(name, i + Len(sPOOL_)) >= 1}
    IN  IF starts = {} THEN 0
        ELSE LET i == Min(starts)
                 n == DigitRun(name, i + Len(sPOOL_))
             IN  IntOf(SubSeq(name, i + Len(sPOOL_), i + Len(sPOOL_) + n - 1))

\* The pattern with its negative lookahead (?!S) left out.
PoolPattern_NoLookahead(technique, name) ==
    \E i \in 1..(Len(name) + 1) :
        /\ OccursAt(name, technique, i)
        /\ \E j \in (i + Len(technique))..Len(name) :
              /\ OccursAt(name, sPOOL, j)
              /\ \E k \in (j + Len(sPOOL))..Len(name) :
                    name[k] \in Digits /\ OccursAt(name, sCsv, k + 1)

\* re.compile(f"{technique}.*POOL(?!S).*\d\.csv").search(name); with the empty
\* technique this is the pattern r".*POOL(?!S).*\d\.csv" of the global branch.
PoolPattern(technique, name) ==
    \E i \in 1..(Len(name) + 1) :
        /\ OccursAt(name, technique, i)
        /\ \E j \in (i + Len(technique))..Len(name) :
              /\ OccursAt(name, sPOOL, j)
              /\ ~OccursAt(name, <<"S">>, j + Len(sPOOL))
              /\ \E k \in (j + Len(sPOOL))..Len(name) :
                    name[k] \in Digits /\ OccursAt(name, sCsv, k + 1)

\* Series.str.extract(r'Pool_(\d+)\.mgf') on one cell: the digits of the first
\* match, NaN when the cell is NaN or has no match.
ExtractPool(cell) ==
    LET starts == {i \in 1..Len(cell) :
                      /\ OccursAt(cell, sPool_, i)
                      /\ DigitRun(cell, i + Len(sPool_)) >= 1
                      /\ OccursAt(cell, sMgf,
                                  i + Len(sPool_) + DigitRun(cell, i + Len(sPool_)))}
    IN  IF starts = {} THEN NaN
        ELSE LET i == Min(starts)
             IN  SubSeq(cell, i + Len(sPool_),
                        i + Len(sPool_) + DigitRun(cell, i + Len(sPool_)) - 1)

\* ------------------------------------------------- tables and directory
\* A table is [columns |-> sequence of column names, rows |-> sequence of rows],
\* a row a sequence of cells aligned with the columns.
ColIndex(columns, c) == CHOOSE i \in 1..Len(columns) : columns[i] = c

HasColumn(columns, c) == \E i \in 1..Len(columns) : columns[i] = c

\* Column names of pd.concat: the union, in order of first appearance.
RECURSIVE ConcatColumns(_)
ConcatColumns(tables) ==
    IF tables = <<>> THEN <<>>
    ELSE LET before == ConcatColumns(SubSeq(tables, 1, Len(tables) - 1))
             own == tables[Len(tables)].columns
         IN  before \o SelectSeq(own, LAMBDA c : ~HasColumn(before, c))

\* One row re-indexed on the columns of the concatenation: NaN where it has none.
Realign(row, from, to) ==
    [i \in 1..Len(to) |->
        IF HasColumn(from, to[i]) THEN row[ColIndex(from, to[i])] ELSE NaN]

RECURSIVE ConcatRows(_, _)
ConcatRows(tables, to) ==
    IF tables = <<>> THEN <<>>
    ELSE LET t == Head(tables)
         IN  [i \in 1..Len(t.rows) |-> Realign(t.rows[i], t.columns, to)]
                \o ConcatRows(Tail(tables), to)

\* pd.concat(tables, ignore_index=True) of a non-empty list.
Concat(tables) ==
    [columns |-> ConcatColumns(tables),
     rows |-> ConcatRows(tables, ConcatColumns(tables))]

\* df.to_csv(path): the file is created, or replaced when it exists.
WriteFile(d, name, table) ==
    [n \in (DOMAIN d) \cup {name} |-> IF n = name THEN table ELSE d[n]]

\* Path.rename(target) where the target does not exist, or is replaced (POSIX).
RenameFile(d, name, target) ==
    [n \in ((DOMAIN d) \ {name}) \cup {target} |-> IF n = target THEN d[name] ELSE d[n]]

\* Path.unlink().
DeleteFile(d, name) == [n \in (DOMAIN d) \ {name} |-> d[n]]

\* Every order in which a directory listing can return the files of S.
RECURSIVE Orders(_)
Orders(S) ==
    IF S = {} THEN {<<>>}
    ELSE UNION {{<<x>> \o p : p \in Orders(S \ {x})} : x \in S}

\* The list left in the order of the directory listing: the sort left out.
SortedByPool_NoSort(S) == Orders(S)

\* sorted(files, key=extract_pool_number): the sort is stable, so files of equal
\* pool number keep the order of the directory listing.
SortedByPool(S) ==
    {fs \in Orders(S) :
        \A i \in 1..(Len(fs) - 1) :
            extract_pool_number(fs[i]) <= extract_pool_number(fs[i + 1])}

\* ------------------------------------------------ combine_pool_files
\* An outcome of a call: the directory it leaves, and whether it raised.
Outcome(d, raised) == [dir |-> d, raised |-> raised]

\* The files, in list order, read and concatenated.
ReadAll(d, fs) == [i \in 1..Len(fs) |-> d[fs[i]]]

\* Name of the combined file of a technique: f"/{technique}_POOLS_123.csv".
TechCombinedName(technique) == technique \o s_POOLS_123 \o sCsv

\* Name of the combined file of the global branch: "/ALL_POOLS.csv".
GlobalCombinedName == sALL_POOLS \o sCsv

\* The loop over the techniques (has_techniques): each technique lists the
\* directory as the previous ones left it; pd.concat of an empty list raises
\* ValueError, which leaves the loop and the function.
RECURSIVE CombineTechniques(_, _)
CombineTechniques(d, ts) ==
    IF ts = <<>> THEN {Outcome(d, FALSE)}
    ELSE LET technique == Head(ts)
             files == {n \in DOMAIN d : PoolPattern(technique, n)}
         IN  IF files = {} THEN {Outcome(d, TRUE)}
             ELSE UNION {CombineTechniques(
                             WriteFile(d, TechCombinedName(technique),
                                       Concat(ReadAll(d, fs))),
                             Tail(ts)) : fs \in SortedByPool(files)}

\* The branch without techniques: one combined file for the whole directory.
CombineGlobal(d) ==
    LET files == {n \in DOMAIN d : PoolPattern(<<>>, n)}
    IN  IF files = {} THEN {Outcome(d, TRUE)}
        ELSE {Outcome(WriteFile(d, GlobalCombinedName, Concat(ReadAll(d, fs))), FALSE) :
                 fs \in SortedByPool(files)}

\* combine_pool_files(directory, techniques, has_techniques): its outcomes.
combine_pool_files(d, ts, has_techs) ==
    IF has_techs THEN CombineTechniques(d, ts) ELSE CombineGlobal(d)

\* ------------------------------------------------ separate_pool_files
\* The distinct non-NaN values of a sequence of cells.
PoolNumbers(cells) == {cells[i] : i \in 1..Len(cells)} \ {NaN}

\* Name of the individual file of one pool number of a combined file.
IndividualName(name, pool_num) ==
    RemoveAll(Stem(name), s_ALL_POOLS) \o s_POOL_ \o pool_num \o sCsv

\* Name the original is renamed to: f"{file.stem}_ALL_POOLS.csv".
AllPoolsName(name) == Stem(name) \o s_ALL_POOLS \o sCsv

\* The selection on Pool_Number left out: every row goes to every pool's file.
RowsOfPool_NoFilter(rows, pools, pool_num) == rows

\* pool_data: the rows whose Pool_Number equals pool_num, the helper column
\* dropped again, so the columns are those of the file read.
RECURSIVE RowsOfPool(_, _, _)
RowsOfPool(rows, pools, pool_num) ==
    IF rows = <<>> THEN <<>>
    ELSE (IF Head(pools) = pool_num THEN <<Head(rows)>> ELSE <<>>)
            \o RowsOfPool(Tail(rows), Tail(pools), pool_num)

\* df.drop('Pool_Number', axis=1) on one row or on the column names: the
\* assignment df['Pool_Number'] = ... replaced a column of that name in place.
DropHelper(columns, xs) ==
    IF HasColumn(columns, HELPER)
    THEN SubSeq(xs, 1, ColIndex(columns, HELPER) - 1)
            \o SubSeq(xs, ColIndex(columns, HELPER) + 1, Len(xs))
    ELSE xs

PoolTable(df, pools, pool_num) ==
    LET rows == RowsOfPool(df.rows, pools, pool_num)
    IN  [columns |-> DropHelper(df.columns, df.columns),
         rows |-> [i \in 1..Len(rows) |-> DropHelper(df.columns, rows[i])]]

\* The individual files of one combined file, written one after the other.
RECURSIVE WritePools(_, _, _, _, _)
WritePools(d, name, df, pools, todo) ==
    IF todo = {} THEN d
    ELSE LET pool_num == CHOOSE x \in todo : TRUE
         IN  WritePools(WriteFile(d, IndividualName(name, pool_num),
                                  PoolTable(df, pools, pool_num)),
                        name, df, pools, todo \ {pool_num})

\* The original removed once it is split.
MarkCombined_Delete(d, name) == DeleteFile(d, name)

\* The rename that marks the original as combined: only when it is not marked
\* already, and skipped when the target exists.
MarkCombined(d, name) ==
    IF HasAllPools(name) \/ AllPoolsName(name) \in DOMAIN d THEN d
    ELSE RenameFile(d, name, AllPoolsName(name))

\* The body of the loop for one file.  A file without the source column is
\* skipped, and so is one with no pool number in that column (a column of NaN
\* only has no .str accessor: the AttributeError is caught, the file skipped).
SeparateFile(d, name) ==
    LET df == d[name]
    IN  IF ~HasColumn(df.columns, TARGET) THEN d
        ELSE LET src == ColIndex(df.columns, TARGET)
                 pools == [i \in 1..Len(df.rows) |-> ExtractPool(df.rows[i][src])]
             IN  IF PoolNumbers(pools) = {} THEN d
                 ELSE MarkCombined(WritePools(d, name, df, pools, PoolNumbers(pools)),
                                   name)

\* The loop left, not continued, at a file without the source column.
RECURSIVE SeparateAll_StopAtMissingColumn(_, _)
SeparateAll_StopAtMissingColumn(d, fs) ==
    IF fs = <<>> THEN d
    ELSE IF ~HasColumn(d[Head(fs)].columns, TARGET) THEN d
    ELSE SeparateAll_StopAtMissingColumn(SeparateFile(d, Head(fs)), Tail(fs))

RECURSIVE SeparateAll(_, _)
SeparateAll(d, fs) ==
    IF fs = <<>> THEN d ELSE SeparateAll(SeparateFile(d, Head(fs)), Tail(fs))

\* files_to_process: the explicitly marked files first, then the files with no
\* individual-pool marker, each group in the order of the directory listing.
FilesToProcess(d) ==
    LET all_files == {n \in DOMAIN d : EndsWith(n, sCsv)}
        all_pools_files == {n \in all_files : HasAllPools(n)}
        potential_combined_files ==
            {n \in all_files : ~HasPoolDigit(n) /\ ~HasAllPools(n)}
    IN  {a \o b : a \in Orders(all_pools_files), b \in Orders(potential_combined_files)}

\* separate_pool_files(directory): its outcomes (it catches what its loop raises).
separate_pool_files(d) ==
    {Outcome(SeparateAll(d, fs), FALSE) : fs \in FilesToProcess(d)}

\* ------------------------------------------------- handle_pool_files
individual_pool_files(d) == {n \in DOMAIN d : EndsWith(n, sCsv) /\ HasPoolDigit(n)}

combined_files(d) ==
    {n \in DOMAIN d :
        /\ EndsWith(n, sCsv)
        /\ (HasAllPools(n) \/ (~HasPoolDigit(n) /\ EndsWith(n, sCsv)))}

\* What the user answers at the prompt of the ambiguous branch, as typed.
Choices == {<<"c", "o", "m", "b", "i", "n", "e">>,
            <<"s", "e", "p", "a", "r", "a", "t", "e">>,
            <<"a", "u", "t", "o">>, <<"n", "o">>, <<"c", "a", "n", "c", "e", "l">>}

\* The decision with the test "and not has_combined_files" left out.
Decide_IgnoreCombined(d, pooled, choice) ==
    IF ~pooled THEN "skip"
    ELSE IF individual_pool_files(d) # {} THEN "combine"
    ELSE IF combined_files(d) # {} THEN "separate"
    ELSE "none"

\* The action handle_pool_files takes: "skip" (not pooled), "combine",
\* "separate", or "none"; choice is read in the ambiguous branch only.
Decide(d, pooled, choice) ==
    LET has_individual_pools == Cardinality(individual_pool_files(d)) > 0
        has_combined_files == Cardinality(combined_files(d)) > 0
    IN  IF ~pooled THEN "skip"
        ELSE IF has_individual_pools /\ ~has_combined_files THEN "combine"
        ELSE IF has_combined_files /\ ~has_individual_pools THEN "separate"
        ELSE IF has_individual_pools /\ has_combined_files
             THEN IF OccursAt(choice, <<"c">>, 1) THEN "combine"
                  ELSE IF OccursAt(choice, <<"s">>, 1) THEN "separate"
                  ELSE IF OccursAt(choice, <<"a">>, 1)
                       THEN IF Cardinality(individual_pool_files(d))
                                  >= Cardinality(combined_files(d))
                            THEN "combine" ELSE "separate"
                       ELSE "none"
        ELSE "none"

\* The branch of the decision: which of the four rows of the table applied.
Branch(d, pooled) ==
    IF ~pooled THEN "not_pooled"
    ELSE IF individual_pool_files(d) # {} /\ combined_files(d) = {} THEN "individual_only"
    ELSE IF combined_files(d) # {} /\ individual_pool_files(d) = {} THEN "combined_only"
    ELSE IF individual_pool_files(d) # {} /\ combined_files(d) # {} THEN "ambiguous"
    ELSE "no_pool_files"

\* handle_pool_files(directory, techniques, is_pooled, has_techniques): the
\* outcomes of the action decided; what combine raises is caught here.
handle_pool_files(d, ts, pooled, has_techs, choice) ==
    LET action == Decide(d, pooled, choice)
    IN  IF action = "combine" THEN combine_pool_files(d, ts, has_techs)
        ELSE IF action = "separate" THEN separate_pool_files(d)
        ELSE {Outcome(d, FALSE)}

\* ------------------------------------------------- rename_pool_files
sMISNAMED == <<"D", "B", " ", "s", "e", "a", "r", "c", "h", " ", "p", "s", "m", "_",
               "I", "D", "_", "C", "D", "9", "_", "N", "O", "_", "P", "O", "O", "L",
               ".", "c", "s", "v">>
sREPAIRED == <<"D", "B", " ", "s", "e", "a", "r", "c", "h", " ", "p", "s", "m", "_",
               "I", "P", "_", "C", "D", "9", "_", "N", "O", "_", "P", "O", "O", "L",
               ".", "c", "s", "v">>

affirmative_answers == {"y", "yes", "sí", "si", "s"}

\* str.upper() on one character of the identifiers typed.
Upper(c) ==
    CASE c = "p" -> "P" [] c = "o" -> "O" [] c = "l" -> "L" [] c = "a" -> "A"
      [] c = "s" -> "S" [] OTHER -> c

\* re.sub(r"\s+", "_", s): every run of blanks becomes one underscore.
RECURSIVE SubBlanks(_)
SubBlanks(s) ==
    IF s = <<>> THEN <<>>
    ELSE IF s[1] = " "
         THEN IF Len(s) >= 2 /\ s[2] = " " THEN SubBlanks(Tail(s))
              ELSE <<"_">> \o SubBlanks(Tail(s))
         ELSE <<s[1]>> \o SubBlanks(Tail(s))

\* The addendum as the code uses it: input(...).upper(), blanks replaced.
Addendum(typed) == SubBlanks([i \in 1..Len(typed) |-> Upper(typed[i])])

\* Path.rename(target) as the platform performs it: where the target exists it
\* is replaced (POSIX) or FileExistsError is raised (Windows); nothing in
\* rename_pool_files catches it.
Rename(o, name, target) ==
    IF o.raised THEN {o}
    ELSE IF target \in DOMAIN o.dir /\ target # name
         THEN {Outcome(RenameFile(o.dir, name, target), FALSE), Outcome(o.dir, TRUE)}
         ELSE {Outcome(RenameFile(o.dir, name, target), FALSE)}

\* The name of the file after the repair of the known misnaming.
Repaired(name) == IF Contains(name, sMISNAMED) THEN sREPAIRED ELSE name

\* One iteration of the loop of rename_pool_files on the file name: its outcomes.
rename_pool_file(d, name, pooled, answer, typed) ==
    LET repaired == IF Contains(name, sMISNAMED)
                    THEN Rename(Outcome(d, FALSE), name, sREPAIRED)
                    ELSE {Outcome(d, FALSE)}
        file == Repaired(name)
    IN  IF pooled /\ ~Contains(file, sPOOL)
        THEN IF answer \in affirmative_answers
             THEN UNION {Rename(o, file,
                                Stem(file) \o <<"_">> \o Addendum(typed) \o Suffix(file)) :
                            o \in repaired}
             ELSE {IF o.raised THEN o ELSE Outcome(DeleteFile(o.dir, file), FALSE) :
                      o \in repaired}
        ELSE repaired

\* ----------------------------------------------- the working directory
\* Techniques of the default vocabulary the model runs with.
TechniqueLists == {<<>>, <<sSEC, sUC>>}

nSEC_POOL_1 == sSEC \o s_POOL_ \o <<"1">> \o sCsv
nSEC_POOL_2 == sSEC \o s_POOL_ \o <<"2">> \o sCsv
nSEC_POOL_10 == sSEC \o s_POOL_ \o <<"1", "0">> \o sCsv
nUC_POOL_1 == sUC \o s_POOL_ \o <<"1">> \o sCsv
nSEC == sSEC \o sCsv
nUC == sUC \o sCsv
nSEC_ALL_POOLS == sSEC \o s_ALL_POOLS \o sCsv
nSEC_POOLS_123 == TechCombinedName(sSEC)
nALL_POOLS == GlobalCombinedName

\* File names rename_pool_files finds (step 3.2 of the script): raw names, among
\* them the misnamed file and the name it is repaired to.
RenameNames == {sMISNAMED, sREPAIRED, nSEC, nUC, nSEC_POOL_1, nSEC_ALL_POOLS}

\* File names handle_pool_files finds (step 3.5, after simplify_filenames has
\* removed the "DB search psm" prefix): individual pool files, files with no
\* pool marker, and the files a reconciliation writes (create_input_directory
\* does not clear the directory between runs).
HandleNames ==
    {nSEC_POOL_1, nSEC_POOL_2, nSEC_POOL_10, nUC_POOL_1, nSEC, nUC,
     nSEC_ALL_POOLS, nSEC_POOLS_123, nALL_POOLS}

\* Cells of the source column: the run file of pool 1, of pool 2, of no pool.
srcPool1 == <<"r", "_">> \o sPool_ \o <<"1">> \o sMgf
srcPool2 == <<"r", "_">> \o sPool_ \o <<"2">> \o sMgf
srcNoPool == <<"r">> \o sMgf

\* Contents a file starts with; every row has its own peptide.
InitTables ==
    {[columns |-> <<TARGET, "Peptide">>,
      rows |-> <<<<srcPool2, <<"B">>>>, <<srcPool1, <<"C">>>>>>],
     [columns |-> <<TARGET, "Peptide">>,
      rows |-> <<<<srcPool1, <<"D">>>>, <<srcNoPool, <<"E">>>>>>],
     [columns |-> <<"Peptide">>, rows |-> <<<<<<"F">>>>>>],
     [columns |-> <<TARGET, HELPER, "Peptide">>,
      rows |-> <<<<srcPool2, <<"9">>, <<"H">>>>>>],
     [columns |-> <<"Peptide", TARGET>>, rows |-> <<<<<<"G">>, srcNoPool>>>>]}

InitDirs(names) ==
    UNION {[S -> InitTables] :
              S \in {S \in SUBSET names : Cardinality(S) <= MaxFiles}}

\* What the user types when asked for a pool identifier.
TypedAddenda == {<<"p", "o", "o", "l", " ", "1">>,
                 <<"a", "l", "l", " ", "p", "o", "o", "l", "s">>}

\* ----------------------------------------------------------- the state
VARIABLES
    dir,         \* the working directory: file name -> table
    is_pooled,   \* the flag set_pools returns
    techniques,  \* the list set_techs returns
    pc,          \* "rename": in rename_pool_files; "handle": at handle_pool_files;
                 \* "crashed": an exception left the script
    todo,        \* the files rename_pool_files has still to visit; at the start
                 \* of the script, the files of RAW_DATA_DIR still to copy
    nops,        \* calls of handle_pool_files made
    last,        \* the last call: what it did, and the directory it found
    prev,        \* the call before the last one, likewise
    output       \* what is written outside the working directory: the output
                 \* directories of the passes (name -> table), analysis_config.txt

vars == <<dir, is_pooled, techniques, pc, todo, nops, last, prev, output>>

\* The output directories as create_output_directories makes them.
NoOutput ==
    [vesiclepedia |-> <<>>, vesiclepedia_glycosylated |-> <<>>, total_proteins |-> <<>>]

has_techniques == Len(techniques) > 0

Init ==
    /\ pc \in {"rename", "handle"}
    /\ dir \in InitDirs(IF pc = "rename" THEN RenameNames ELSE HandleNames)
    /\ is_pooled \in BOOLEAN
    /\ techniques \in TechniqueLists
    /\ output = NoOutput
    /\ todo = IF pc = "rename" THEN DOMAIN dir ELSE {}
    /\ nops = 0
    /\ last = [op |-> "init", action |-> "none", branch |-> "none", pre |-> dir,
               raised |-> FALSE, file |-> <<>>]
    /\ prev = last

\* One iteration of the loop of rename_pool_files, with the answers typed.
RenamePoolFile ==
    /\ pc = "rename"
    /\ \E name \in todo, answer \in {"y", "n"}, typed \in TypedAddenda :
          \E o \in rename_pool_file(dir, name, is_pooled, answer, typed) :
             /\ dir' = o.dir
             /\ pc' = IF o.raised THEN "crashed" ELSE "rename"
             /\ todo' = todo \ {name}
             /\ last' = [op |-> "rename", action |-> "none", branch |-> "none",
                         pre |-> dir, raised |-> o.raised, file |-> name]
    /\ prev' = last
    /\ UNCHANGED <<is_pooled, techniques, nops, output>>

\* One call of handle_pool_files; the choice is typed in the ambiguous branch only.
HandlePoolFiles ==
    /\ pc = "handle"
    /\ nops < MaxOps
    /\ \E choice \in IF Branch(dir, is_pooled) = "ambiguous" THEN Choices ELSE {<<>>} :
          \E o \in handle_pool_files(dir, techniques, is_pooled, has_techniques, choice) :
             /\ dir' = o.dir
             /\ last' = [op |-> "handle", action |-> Decide(dir, is_pooled, choice),
                         branch |-> Branch(dir, is_pooled), pre |-> dir,
                         raised |-> o.raised, file |-> choice]
    /\ nops' = nops + 1
    /\ prev' = last
    /\ UNCHANGED <<is_pooled, techniques, pc, todo, output>>

Next == RenamePoolFile \/ HandlePoolFiles

Spec == Init /\ [][Next]_vars

\* =========================================================== the claims
\* The rows of a table as a bag of column-name -> cell maps: the row multiset,
\* whatever the order of the rows and of the columns.
RowMap(t, i) == [c \in {t.columns[k] : k \in 1..Len(t.columns)} |->
                    t.rows[i][ColIndex(t.columns, c)]]

RowBag(t) ==
    LET maps == {RowMap(t, i) : i \in 1..Len(t.rows)}
    IN  [m \in maps |-> Cardinality({i \in 1..Len(t.rows) : RowMap(t, i) = m})]

\* The file-presence table as the specification words it.
IndividualPresent(d) == \E n \in DOMAIN d : HasPoolDigit(n)

CombinedPresent(d) == \E n \in DOMAIN d : HasAllPools(n) \/ ~HasPoolDigit(n)

sCombine == <<"c", "o", "m", "b", "i", "n", "e">>
sSeparate == <<"s", "e", "p", "a", "r", "a", "t", "e">>
sAuto == <<"a", "u", "t", "o">>

\* C1: handle_pool_files selects its action from the file-presence table: not
\* pooled, it changes no file; pooled, it combines when only individual pool
\* files are present, splits when only combined files are present, changes no
\* file when neither is present, and with both present runs the action the
\* typed choice selects (and none for the answer no).
C1_ActionFromPresenceTable ==
    last.op = "handle" =>
        LET ind == IndividualPresent(last.pre)
            comb == CombinedPresent(last.pre)
        IN  /\ ~is_pooled => (last.action = "skip" /\ dir = last.pre)
            /\ (is_pooled /\ ind /\ ~comb) => last.action = "combine"
            /\ (is_pooled /\ comb /\ ~ind) => last.action = "separate"
            /\ (is_pooled /\ ~ind /\ ~comb) => (last.action = "none" /\ dir = last.pre)
            /\ (is_pooled /\ ind /\ comb) =>
                  /\ last.file = sCombine => last.action = "combine"
                  /\ last.file = sSeparate => last.action = "separate"
                  /\ last.file = sAuto => last.action \in {"combine", "separate"}
                  /\ last.file = <<"n", "o">> =>
                        (last.action = "none" /\ dir = last.pre)
            /\ last.action = "combine" =>
                  dir \in {o.dir : o \in combine_pool_files(last.pre, techniques,
                                                            has_techniques)}
            /\ last.action = "separate" =>
                  dir \in {o.dir : o \in separate_pool_files(last.pre)}

\* C1 witness: a pooled call that found both kinds of file, was told to separate,
\* and changed the directory.
C1_Witness ==
    /\ last.op = "handle" /\ is_pooled
    /\ IndividualPresent(last.pre) /\ CombinedPresent(last.pre)
    /\ last.file = sSeparate /\ last.action = "separate"
    /\ dir # last.pre

\* The files a combine run reads, by the branch it takes.
IsCombineInput(n) ==
    IF has_techniques THEN \E i \in 1..Len(techniques) : PoolPattern(techniques[i], n)
    ELSE PoolPattern(<<>>, n)

\* The files a call wrote or created.
WrittenBy(call, after) ==
    {n \in DOMAIN after : n \notin DOMAIN call.pre \/ call.pre[n] # after[n]}

\* C2: combine is idempotent: a second combine run right after a first leaves
\* every file with the same columns and the same row multiset, and reads none
\* of the files the first run wrote.
C2_CombineIdempotent ==
    (/\ last.op = "handle" /\ last.action = "combine"
     /\ prev.op = "handle" /\ prev.action = "combine") =>
        /\ DOMAIN dir = DOMAIN last.pre
        /\ \A n \in DOMAIN dir : RowBag(dir[n]) = RowBag(last.pre[n])
        /\ \A n \in WrittenBy(prev, last.pre) : ~IsCombineInput(n)

\* C2 witness: two combine runs in a row, the first on individual pool files
\* only, writing a combined file that was not there.
C2_Witness ==
    /\ last.op = "handle" /\ last.action = "combine"
    /\ prev.op = "handle" /\ prev.action = "combine"
    /\ prev.branch = "individual_only"
    /\ \E n \in DOMAIN last.pre : n \notin DOMAIN prev.pre

\* The combined files of a directory, as the specification words them: marked
\* explicitly, or without an individual-pool marker.
IsCombinedName(n) == HasAllPools(n) \/ ~HasPoolDigit(n)

\* Every row of the table carries a pool index in the source column, and the
\* table has no column of the helper's name, which a split would drop.
AllRowsIndexed(t) ==
    /\ HasColumn(t.columns, TARGET)
    /\ ~HasColumn(t.columns, HELPER)
    /\ \A i \in 1..Len(t.rows) : ExtractPool(t.rows[i][ColIndex(t.columns, TARGET)]) # NaN

\* C3: round trip: a directory holds one combined file, named after a technique
\* of the vocabulary when the run has techniques, with the source column, no
\* column named Pool_Number and a pool index in every row; a split and then a
\* combine yield a combined file,
\* written by that combine, whose row multiset is that of the original.
C3_SplitThenCombineRoundTrip ==
    (/\ last.op = "handle" /\ last.action = "combine"
     /\ prev.op = "handle" /\ prev.action = "separate"
     /\ Cardinality(DOMAIN prev.pre) = 1) =>
        \A c \in DOMAIN prev.pre :
            (/\ IsCombinedName(c)
             /\ AllRowsIndexed(prev.pre[c])
             /\ has_techniques => \E i \in 1..Len(techniques) : Contains(c, techniques[i])) =>
                \E n \in WrittenBy(last, dir) :
                    IsCombinedName(n) /\ RowBag(dir[n]) = RowBag(prev.pre[c])

\* C4: split never overwrites: an individual pool file that exists before a
\* split is there after it with the content it had.
C4_SplitKeepsExistingFiles ==
    (last.op = "handle" /\ last.action = "separate") =>
        \A n \in DOMAIN last.pre :
            HasPoolDigit(n) => (n \in DOMAIN dir /\ dir[n] = last.pre[n])

\* C5: no rename of the reconciliation replaces an existing file: after an
\* iteration of rename_pool_files every file but the one it visited is there
\* with its content, and after a split every file that carried the combined
\* marker's name is.
C5_RenamesNeverReplace ==
    /\ last.op = "rename" =>
          \A n \in (DOMAIN last.pre) \ {last.file} :
              n \in DOMAIN dir /\ dir[n] = last.pre[n]
    /\ (last.op = "handle" /\ last.action = "separate") =>
          \A n \in DOMAIN last.pre :
              EndsWith(n, s_ALL_POOLS \o sCsv) => (n \in DOMAIN dir /\ dir[n] = last.pre[n])

\* The individual pool files of a technique, and of the whole directory.
TechGroup(d, technique) == {n \in DOMAIN d : HasPoolDigit(n) /\ Contains(n, technique)}

GlobalGroup(d) == {n \in DOMAIN d : HasPoolDigit(n)}

\* The orders of a group by ascending numeric pool index.
Ascending(S) ==
    {fs \in Orders(S) :
        \A i, j \in 1..Len(fs) :
            i < j => extract_pool_number(fs[i]) <= extract_pool_number(fs[j])}

RECURSIVE SumRows(_, _)
SumRows(d, S) ==
    IF S = {} THEN 0
    ELSE LET n == CHOOSE x \in S : TRUE IN Len(d[n].rows) + SumRows(d, S \ {n})

\* The file name holds the rows of the group's files as they were in d,
\* concatenated file by file in ascending pool index.
HoldsGroup(name, d, group) ==
    /\ name \in DOMAIN dir
    /\ Len(dir[name].rows) = SumRows(d, group)
    /\ \E fs \in Ascending(group) : dir[name] = Concat(ReadAll(d, fs))

\* The combine run reached the i-th technique: every technique up to it had files.
ReachedTechnique(d, i) == \A j \in 1..i : TechGroup(d, techniques[j]) # {}

\* C6: the combined file a combine run produces for a technique, or for the
\* whole directory without techniques, holds the rows of the individual pool
\* files of that group, file by file in ascending numeric pool index; its row
\* count is the sum of theirs.
C6_CombineContent ==
    (last.op = "handle" /\ last.action = "combine") =>
        IF has_techniques
        THEN \A i \in 1..Len(techniques) :
                ReachedTechnique(last.pre, i) =>
                    HoldsGroup(TechCombinedName(techniques[i]), last.pre,
                               TechGroup(last.pre, techniques[i]))
        ELSE GlobalGroup(last.pre) # {} =>
                HoldsGroup(GlobalCombinedName, last.pre, GlobalGroup(last.pre))

\* C6 witness: a combine run that concatenated two files of one technique whose
\* pool indices are in numeric but not in alphabetical order.
C6_Witness ==
    /\ last.op = "handle" /\ last.action = "combine" /\ has_techniques
    /\ {nSEC_POOL_2, nSEC_POOL_10} \subseteq DOMAIN last.pre
    /\ nSEC_POOLS_123 \in DOMAIN dir
    /\ Len(dir[nSEC_POOLS_123].rows)
          = Len(last.pre[nSEC_POOL_2].rows) + Len(last.pre[nSEC_POOL_10].rows)

\* C7: a combine run produces the combined file of every technique that has an
\* individual pool file, whether or not the other techniques have any.
C7_CombineCoversEveryTechnique ==
    (last.op = "handle" /\ last.action = "combine" /\ has_techniques) =>
        \A i \in 1..Len(techniques) :
            TechGroup(last.pre, techniques[i]) # {} =>
                HoldsGroup(TechCombinedName(techniques[i]), last.pre,
                           TechGroup(last.pre, techniques[i]))

\* The pool index of a row of table t, NaN when it carries none.
PoolOfRow(t, i) == ExtractPool(t.rows[i][ColIndex(t.columns, TARGET)])

\* The pool indices the rows of a table carry.
PoolsOf(t) ==
    IF HasColumn(t.columns, TARGET)
    THEN {PoolOfRow(t, i) : i \in 1..Len(t.rows)} \ {NaN}
    ELSE {}

\* The combined files a split visits, those it can split, and those that lack
\* the source column.
SplitInputs(d) == {c \in DOMAIN d : EndsWith(c, sCsv) /\ IsCombinedName(c)}

Splittable(d) == {c \in SplitInputs(d) : PoolsOf(d[c]) # {}}

LackColumn(d) == {c \in SplitInputs(d) : ~HasColumn(d[c].columns, TARGET)}

\* The rows of table t that carry pool index k, in the order of the table.
RECURSIVE RowsCarrying(_, _, _)
RowsCarrying(t, k, i) ==
    IF i > Len(t.rows) THEN <<>>
    ELSE (IF PoolOfRow(t, i) = k THEN <<t.rows[i]>> ELSE <<>>) \o RowsCarrying(t, k, i + 1)

\* The individual file of pool index k the split of combined file c is to
\* leave: the rows of c that carry k, the helper column removed, every other
\* column and cell unchanged.
ExpectedPoolFile(t, k) ==
    LET rows == RowsCarrying(t, k, 1)
    IN  [columns |-> DropHelper(t.columns, t.columns),
         rows |-> [i \in 1..Len(rows) |-> DropHelper(t.columns, rows[i])]]

\* The rename of the original c, as the claim words it: done unless c carries
\* the marker already.
RenamedUnlessMarked(c) ==
    IF HasAllPools(c) THEN c \in DOMAIN dir /\ dir[c] = last.pre[c]
    ELSE /\ c \notin DOMAIN dir
         /\ AllPoolsName(c) \in DOMAIN dir
         /\ dir[AllPoolsName(c)] = last.pre[c]

BaseName(c) == RemoveAll(Stem(c), s_ALL_POOLS)

\* No other combined file of the directory shares the base name of c.
BaseNameUnshared(d, c) == \A c2 \in SplitInputs(d) \ {c} : BaseName(c2) # BaseName(c)

\* The rename as the code does it: also left out when the marked name exists.
RenamedUnlessMarkedOrTaken(c) ==
    IF HasAllPools(c) \/ AllPoolsName(c) \in DOMAIN last.pre
    THEN c \in DOMAIN dir /\ dir[c] = last.pre[c]
    ELSE /\ c \notin DOMAIN dir
         /\ AllPoolsName(c) \in DOMAIN dir
         /\ dir[AllPoolsName(c)] = last.pre[c]

C9_SplitIsolatesFileWithoutColumn ==
    (last.op = "handle" /\ last.action = "separate" /\ LackColumn(last.pre) # {}) =>
        /\ \A c \in LackColumn(last.pre) :
              /\ c \in DOMAIN dir /\ dir[c] = last.pre[c]
              /\ AllPoolsName(c) \notin DOMAIN last.pre => AllPoolsName(c) \notin DOMAIN dir
        /\ \A n \in WrittenBy(last, dir) :
              \E g \in Splittable(last.pre) :
                  \/ n = AllPoolsName(g)
                  \/ \E k \in PoolsOf(last.pre[g]) : n = IndividualName(g, k)
        /\ \A g \in Splittable(last.pre) :
              \A k \in PoolsOf(last.pre[g]) :
                  /\ IndividualName(g, k) \in DOMAIN dir
                  /\ PoolsOf(dir[IndividualName(g, k)]) = {k}

\* C9 witness: a split of a directory with a file that lacks the source column
\* and another that was split.
C9_Witness ==
    /\ last.op = "handle" /\ last.action = "separate"
    /\ LackColumn(last.pre) # {}
    /\ \E g \in Splittable(last.pre) :
          \E k \in PoolsOf(last.pre[g]) : IndividualName(g, k) \notin DOMAIN last.pre

\* A working set in which no name is recognised both as individual and as
\* combined, and no technique has more than one combined file.
Normalized(d) ==
    /\ \A n \in DOMAIN d : ~(HasPoolDigit(n) /\ HasAllPools(n))
    /\ \A i \in 1..Len(techniques) :
          Cardinality({n \in DOMAIN d : IsCombinedName(n) /\ Contains(n, techniques[i])}) <= 1

\* C10: in a pooled run with techniques, a reconciliation that combines or
\* splits a working set leaves it normalized (stated for the working sets that
\* were normalized when it started).
C10_ReconciledSetIsNormalized ==
    (/\ last.op = "handle" /\ is_pooled /\ has_techniques
     /\ last.action \in {"combine", "separate"}
     /\ Normalized(last.pre)) => Normalized(dir)

\* C11: reconciliation is deterministic: the directory a call of
\* handle_pool_files leaves is the one it leaves under every order of the
\* directory listing, the files, the flags and the choice being the same.
C11_ReconciliationDeterministic ==
    last.op = "handle" =>
        \A o \in handle_pool_files(last.pre, techniques, is_pooled, has_techniques,
                                   last.file) :
            o.dir = dir

\* ================================================ classify_ptm_types
\* The columns the script names (step 4.3) and the helper column of the code.
PTM_COL == "PTM"
PTM_CLUSTER_COL == "PTM_Cluster"
CLEAN_PTM == "Clean_PTM"

\* str(NaN), what astype(str) makes of an empty cell.
sNan == <<"n", "a", "n">>

\* The categories, in the order of the choices of np.select, and its default.
cFucosialylated == <<"F", "u", "c", "o", "s", "i", "a", "l", "y", "l", "a", "t", "e", "d">>
cFucosylated == <<"F", "u", "c", "o", "s", "y", "l", "a", "t", "e", "d">>
cSialylated == <<"S", "i", "a", "l", "y", "l", "a", "t", "e", "d">>
cOligomannose == <<"O", "l", "i", "g", "o", "m", "a", "n", "n", "o", "s", "e">>
cNoPTM == <<"N", "o", " ", "P", "T", "M">>
cOther == <<"O", "t", "h", "e", "r">>

choices == <<cFucosialylated, cFucosylated, cSialylated, cOligomannose, cNoPTM>>

\* The markers the conditions search for.
mdHex == <<"d", "H", "e", "x">>
mFucos == <<"F", "u", "c", "o", "s">>
mBiantennary == <<"B", "i", "a", "n", "t", "e", "n", "n", "a", "r", "y">>
mNeuGc == <<"N", "e", "u", "G", "c">>
mNeuAc == <<"N", "e", "u", "A", "c">>
mKdn == <<"K", "d", "n">>
mNeuraminic == <<"N", "e", "u", "r", "a", "m", "i", "n", "i", "c">>
mHexNAc == <<"H", "e", "x", "N", "A", "c">>
mNlinked == <<"N", "-", "l", "i", "n", "k", "e", "d">>
mGlycan == <<"g", "l", "y", "c", "a", "n">>
mCore == <<"c", "o", "r", "e">>
sTrue == <<":", "t", "r", "u", "e">>
sFalse == <<":", "f", "a", "l", "s", "e">>

UpperCase == {"A", "B", "C", "D", "E", "F", "G", "H", "I", "J", "K", "L", "M",
              "N", "O", "P", "Q", "R", "S", "T", "U", "V", "W", "X", "Y", "Z"}

\* The characters \s matches.
WhiteSpace == {" ", "\t", "\n", "\r", "\f"}

\* df[target_col].astype(str): an empty cell becomes the text "nan".
astype_str(x) == IF x = NaN THEN sNan ELSE x

\* Length of the match of  [A-Z]\d{1,2}:  at position i of s, 0 when there is none.
PrefixMatch(s, i) ==
    IF i + 2 <= Len(s) /\ s[i] \in UpperCase /\ s[i + 1] \in Digits
    THEN IF i + 3 <= Len(s) /\ s[i + 2] \in Digits /\ s[i + 3] = ":" THEN 4
         ELSE IF s[i + 2] = ":" THEN 3
         ELSE 0
    ELSE 0

\* str.replace(r'[A-Z]\d{1,2}:', '', regex=True), from position i on.
RECURSIVE SubPrefix(_, _)
SubPrefix(s, i) ==
    IF i > Len(s) THEN <<>>
    ELSE IF PrefixMatch(s, i) > 0 THEN SubPrefix(s, i + PrefixMatch(s, i))
    ELSE <<s[i]>> \o SubPrefix(s, i + 1)

\* Length of the match of  :(true|false)  at position i of s, 0 when there is none.
BoolAt(s, i) ==
    IF OccursAt(s, sTrue, i) THEN Len(sTrue)
    ELSE IF OccursAt(s, sFalse, i) THEN Len(sFalse)
    ELSE 0

\* Where the group  \([\D]{2,}\)  opened at position i can close so that
\* :(true|false) follows.
GroupCloses(s, i) ==
    IF i <= Len(s) /\ s[i] = "("
    THEN {j \in (i + 3)..Len(s) :
            /\ s[j] = ")"
            /\ \A k \in (i + 1)..(j - 1) : s[k] \notin Digits
            /\ BoolAt(s, j + 1) > 0}
    ELSE {}

\* Length of the match of  (\([\D]{2,}\))?:(true|false)  at position i of s
\* (the group is greedy), 0 when there is none.
SuffixMatch(s, i) ==
    IF GroupCloses(s, i) # {}
    THEN LET j == Max(GroupCloses(s, i)) IN (j - i + 1) + BoolAt(s, j + 1)
    ELSE BoolAt(s, i)

\* str.replace(r'(\([\D]{2,}\))?:(true|false)', '', regex=True), from position i on.
RECURSIVE SubSuffix(_, _)
SubSuffix(s, i) ==
    IF i > Len(s) THEN <<>>
    ELSE IF SuffixMatch(s, i) > 0 THEN SubSuffix(s, i + SuffixMatch(s, i))
    ELSE <<s[i]>> \o SubSuffix(s, i + 1)

\* The cell of Clean_PTM computed from the cell of the target column.
CleanPTM(x) == SubSuffix(SubPrefix(astype_str(x), 1), 1)

\* str.contains(r'dHex|Fucos|Biantennary').
HasFucose(s) == Contains(s, mdHex) \/ Contains(s, mFucos) \/ Contains(s, mBiantennary)

\* str.contains(r'NeuGc|NeuAc|Kdn|Neuraminic').
HasSialic(s) ==
    Contains(s, mNeuGc) \/ Contains(s, mNeuAc) \/ Contains(s, mKdn) \/ Contains(s, mNeuraminic)

\* str.contains(r'HexNAc|N\-linked\sglycan\score').
HasCore(s) ==
    \/ Contains(s, mHexNAc)
    \/ \E i \in 1..Len(s) :
          LET a == i + Len(mNlinked)
              b == a + 1 + Len(mGlycan)
          IN  /\ OccursAt(s, mNlinked, i)
              /\ a <= Len(s) /\ s[a] \in WhiteSpace
              /\ OccursAt(s, mGlycan, a + 1)
              /\ b <= Len(s) /\ s[b] \in WhiteSpace
              /\ OccursAt(s, mCore, b + 1)

\* str.contains(r'dHex|Fucos|NeuGc|NeuAc|Kdn|Neuraminic|Biantennary').
HasFucoseOrSialic(s) ==
    \/ Contains(s, mdHex) \/ Contains(s, mFucos) \/ Contains(s, mNeuGc)
    \/ Contains(s, mNeuAc) \/ Contains(s, mKdn) \/ Contains(s, mNeuraminic)
    \/ Contains(s, mBiantennary)

\* The second condition without its negation: any string with a fucose marker.
conditions_NoNegation(s) ==
    <<HasFucose(s) /\ HasSialic(s),
      HasFucose(s),
      ~HasFucose(s) /\ HasSialic(s),
      HasCore(s) /\ ~HasFucoseOrSialic(s),
      s = sNan>>

\* The conditions of np.select, for one cleaned string.
conditions(s) ==
    <<HasFucose(s) /\ HasSialic(s),
      HasFucose(s) /\ ~HasSialic(s),
      ~HasFucose(s) /\ HasSialic(s),
      HasCore(s) /\ ~HasFucoseOrSialic(s),
      s = sNan>>

\* np.select(conditions, choices, default): the choice of the first condition
\* that holds, the default when none does.
np_select(conds, chs, default) ==
    IF \E i \in 1..Len(conds) : conds[i]
    THEN chs[Min({i \in 1..Len(conds) : conds[i]})]
    ELSE default

\* empty_row_catcher: the cleaned strings the code marks "No PTM" afterwards.
empty_row_catcher(s) == s = <<>> \/ s = <<" ">> \/ s = sNan

\* The cell of the new column for one cleaned string.
Classify(s) ==
    IF empty_row_catcher(s) THEN cNoPTM
    ELSE np_select(conditions(s), choices, cOther)

\* Cells of the modification column the files start with.
rawFucoSialo == <<"d", "H", "e", "x", "(", "1", ")", "N", "e", "u", "A", "c", "(", "2", ")">>
rawFuco == <<"d", "H", "e", "x", "(", "1", ")">>
rawSialo == <<"N", "e", "u", "A", "c", "(", "1", ")">>
rawHexNAc == <<"H", "e", "x", "N", "A", "c", "(", "2", ")">>
rawHexNAcFuco == <<"H", "e", "x", "N", "A", "c", "(", "2", ")", "d", "H", "e", "x", "(", "1", ")">>
rawCore == <<"N", "-", "l", "i", "n", "k", "e", "d", " ", "g", "l", "y", "c", "a", "n", " ", "c", "o", "r", "e">>
rawBlank == <<" ">>
rawBlanks == <<" ", " ">>
rawTab == <<"\t">>
rawSiteOnly == <<"N", "1", "2", ":">>
rawPhospho == <<"P", "h", "o", "s", "p", "h", "o">>
rawSited == <<"N", "5", ":", "H", "e", "x", "N", "A", "c", "(", "2", ")", "(", "M", "a", "n", ")", ":", "t", "r", "u", "e">>
rawKdnFucos == <<"K", "d", "n", " ", "F", "u", "c", "o", "s">>
rawSitedNan == <<"N", "1", ":", "n", "a", "n">>
rawBiantennary == <<"B", "i", "a", "n", "t", "e", "n", "n", "a", "r", "y">>
rawSitedSialo == <<"N", "3", ":", "N", "e", "u", "G", "c", ":", "f", "a", "l", "s", "e">>
rawCoreSialo == <<"N", "-", "l", "i", "n", "k", "e", "d", " ", "g", "l", "y", "c", "a", "n", " ", "c", "o", "r", "e", " ", "N", "e", "u", "r", "a", "m", "i", "n", "i", "c">>

RawPTMs ==
    {NaN, rawFucoSialo, rawFuco, rawSialo, rawHexNAc,
     rawHexNAcFuco, rawCore, rawBlank, rawBlanks,
     rawTab, rawSiteOnly, rawPhospho, rawSited,
     rawKdnFucos, rawSitedNan, rawBiantennary, rawSitedSialo,
     rawCoreSialo}

\* The cells of column c of a table, row by row.
Column(t, c) == [i \in 1..Len(t.rows) |-> t.rows[i][ColIndex(t.columns, c)]]

\* df[c] = vals: the column is replaced where it stands, or added at the end.
SetColumn(t, c, vals) ==
    IF HasColumn(t.columns, c)
    THEN [columns |-> t.columns,
          rows |-> [i \in 1..Len(t.rows) |->
                      [t.rows[i] EXCEPT ![ColIndex(t.columns, c)] = vals[i]]]]
    ELSE [columns |-> Append(t.columns, c),
          rows |-> [i \in 1..Len(t.rows) |-> Append(t.rows[i], vals[i])]]

\* The body of the loop up to to_csv: the table the file is overwritten with.
ClassifyTable(df, target_col, new_col) ==
    IF HasColumn(df.columns, target_col)
    THEN LET as_str == [i \in 1..Len(df.rows) |-> astype_str(Column(df, target_col)[i])]
             clean == [i \in 1..Len(df.rows) |-> SubSuffix(SubPrefix(as_str[i], 1), 1)]
             with_str == SetColumn(df, target_col, as_str)
             with_clean == SetColumn(with_str, CLEAN_PTM, clean)
         IN  SetColumn(with_clean, new_col,
                       [i \in 1..Len(df.rows) |-> Classify(clean[i])])
    ELSE SetColumn(df, new_col, [i \in 1..Len(df.rows) |-> cNoPTM])

\* The loop over the files in list order. bound: clean_target_col has been
\* assigned, which only the branch of a file with the target column does. The
\* last statement of the body reads df[clean_target_col]: it raises
\* UnboundLocalError when the name is not bound and KeyError when the table has
\* no such column, after the file has been written.
RECURSIVE ClassifyAll(_, _, _, _, _)
ClassifyAll(d, fs, target_col, new_col, bound) ==
    IF fs = <<>> THEN Outcome(d, FALSE)
    ELSE LET df == ClassifyTable(d[Head(fs)], target_col, new_col)
             written == WriteFile(d, Head(fs), df)
             now_bound == bound \/ HasColumn(d[Head(fs)].columns, target_col)
         IN  IF now_bound /\ HasColumn(df.columns, CLEAN_PTM)
             THEN ClassifyAll(written, Tail(fs), target_col, new_col, now_bound)
             ELSE Outcome(written, TRUE)

\* classify_ptm_types(input_dir, target_col, new_col): its outcomes, one per
\* order in which glob returns the files.
classify_ptm_types(d, target_col, new_col) ==
    {ClassifyAll(d, fs, target_col, new_col, FALSE) :
        fs \in Orders({n \in DOMAIN d : EndsWith(n, sCsv)})}

\* Contents of the files classify_ptm_types finds: one row per modification
\* cell, a file of two rows, a file without the modification column, and one
\* without it that has a Clean_PTM column.
ClassifyTables ==
    {[columns |-> <<"Peptide", PTM_COL>>, rows |-> <<<<<<"F">>, x>>>>] : x \in RawPTMs}
    \cup {[columns |-> <<PTM_COL, "Peptide">>,
           rows |-> <<<<rawSited, <<"B">>>>, <<rawBlanks, <<"C">>>>>>],
          [columns |-> <<"Peptide">>, rows |-> <<<<<<"F">>>>>>],
          [columns |-> <<"Peptide", CLEAN_PTM>>, rows |-> <<<<<<"G">>, rawHexNAc>>>>]}

ClassifyNames == {nSEC, nUC}

ClassifyDirs ==
    UNION {[S -> ClassifyTables] :
              S \in {S \in SUBSET ClassifyNames : Cardinality(S) <= MaxFiles}}

\* Step 4.3 of the script: the directory as the steps before left it.
InitClassify ==
    /\ pc = "classify"
    /\ dir \in ClassifyDirs
    /\ output = NoOutput
    /\ is_pooled \in BOOLEAN
    /\ techniques = <<sSEC, sUC>>
    /\ todo = {}
    /\ nops = 0
    /\ last = [op |-> "init", action |-> "none", branch |-> "none", pre |-> dir,
               raised |-> FALSE, file |-> <<>>]
    /\ prev = last

\* The call of classify_ptm_types; an exception it raises ends the script.
ClassifyPtmTypes ==
    /\ pc = "classify"
    /\ \E o \in classify_ptm_types(dir, PTM_COL, PTM_CLUSTER_COL) :
          /\ dir' = o.dir
          /\ pc' = IF o.raised THEN "crashed" ELSE "classified"
          /\ last' = [op |-> "classify", action |-> "none", branch |-> "none",
                      pre |-> dir, raised |-> o.raised, file |-> <<>>]
    /\ prev' = last
    /\ UNCHANGED <<is_pooled, techniques, todo, nops, output>>

NextClassify == ClassifyPtmTypes

SpecClassify == InitClassify /\ [][NextClassify]_vars

\* ------------------------------------------- claims on the classification
Categories ==
    {cFucosialylated, cFucosylated, cSialylated, cOligomannose, cNoPTM, cOther}

\* The rules of np.select that hold of a cleaned string.
HoldingRules(s) == {i \in 1..Len(conditions(s)) : conditions(s)[i]}

\* The files classify_ptm_types has written the cluster column of.
Classified == {n \in DOMAIN dir : HasColumn(dir[n].columns, PTM_CLUSTER_COL)}

\* C12: classification is complete and exclusive: every row of a classified
\* file carries exactly one of the six categories, and at most one of the five
\* rules holds of its cleaned modification string, so the order of the rules
\* does not matter.
C12_ClassificationCompleteExclusive ==
    last.op = "classify" =>
        \A n \in Classified :
            \A i \in 1..Len(dir[n].rows) :
                /\ Column(dir[n], PTM_CLUSTER_COL)[i] \in Categories
                /\ HasColumn(dir[n].columns, CLEAN_PTM) =>
                      Cardinality(HoldingRules(Column(dir[n], CLEAN_PTM)[i])) <= 1

\* C12 witness: a classified row whose string has a fucose and a sialic marker,
\* the case the negations of rules 2 and 3 are there for.
C12_Witness ==
    /\ last.op = "classify"
    /\ \E n \in Classified :
          \E i \in 1..Len(dir[n].rows) :
              /\ HasColumn(dir[n].columns, CLEAN_PTM)
              /\ HasFucose(Column(dir[n], CLEAN_PTM)[i])
              /\ HasSialic(Column(dir[n], CLEAN_PTM)[i])
              /\ Column(dir[n], PTM_CLUSTER_COL)[i] = cFucosialylated

\* The marker families as the rule definitions name them.
FucoseFamily == {mdHex, mFucos, mBiantennary}

SialicFamily == {mNeuGc, mNeuAc, mKdn, mNeuraminic}

ContainsAny(s, markers) == \E m \in markers : Contains(s, m)

\* A No-PTM string: empty, whitespace only, or the textual-null sentinel.
NoPTMString(s) == (\A k \in 1..Len(s) : s[k] \in WhiteSpace) \/ s = sNan

\* The files that had the modification column and were classified.
ClassifiedWithColumn ==
    {n \in Classified : n \in DOMAIN last.pre /\ HasColumn(last.pre[n].columns, PTM_COL)}

\* C13: the category of every row is the one the rule definitions give for its
\* cleaned string: Fucosialylated iff fucose and sialic marker, Fucosylated iff
\* fucose without sialic, Sialylated iff sialic without fucose, Oligomannose
\* iff core marker and neither, Other iff none of these and not a No-PTM string.
C13_ClassificationMatchesRules ==
    last.op = "classify" =>
        \A n \in ClassifiedWithColumn :
            \A i \in 1..Len(dir[n].rows) :
                LET s == Column(dir[n], CLEAN_PTM)[i]
                    c == Column(dir[n], PTM_CLUSTER_COL)[i]
                    fuc == ContainsAny(s, FucoseFamily)
                    sia == ContainsAny(s, SialicFamily)
                IN  /\ s = CleanPTM(Column(last.pre[n], PTM_COL)[i])
                    /\ c = cFucosialylated <=> (fuc /\ sia)
                    /\ c = cFucosylated <=> (fuc /\ ~sia)
                    /\ c = cSialylated <=> (~fuc /\ sia)
                    /\ c = cOligomannose <=> (HasCore(s) /\ ~fuc /\ ~sia)
                    /\ c = cOther <=> (~fuc /\ ~sia /\ ~HasCore(s) /\ ~NoPTMString(s))

\* C14: every row whose cleaned string is empty, whitespace only or the
\* textual-null sentinel is classified No PTM.
C14_BlankIsNoPTM ==
    last.op = "classify" =>
        \A n \in ClassifiedWithColumn :
            \A i \in 1..Len(dir[n].rows) :
                NoPTMString(Column(dir[n], CLEAN_PTM)[i]) =>
                    Column(dir[n], PTM_CLUSTER_COL)[i] = cNoPTM

\* C15: a file without the modification column is no error: the call does not
\* raise, every row of that file is classified No PTM, and every file of the
\* directory is classified.
C15_MissingColumnIsNoError ==
    (/\ last.op = "classify"
     /\ \E n \in DOMAIN last.pre : ~HasColumn(last.pre[n].columns, PTM_COL)) =>
        /\ ~last.raised
        /\ \A n \in DOMAIN last.pre :
              /\ n \in Classified
              /\ ~HasColumn(last.pre[n].columns, PTM_COL) =>
                    \A i \in 1..Len(dir[n].rows) :
                        Column(dir[n], PTM_CLUSTER_COL)[i] = cNoPTM

\* ====================================================== the filter passes
\* The printable characters in the order of their code points (the backquote
\* left out), for Python's comparison of strings.
Ascii ==
    <<" ", "!", "\"", "#", "$", "%", "&", "'", "(", ")", "*", "+", ",", "-",
    ".", "/", "0", "1", "2", "3", "4", "5", "6", "7", "8", "9", ":", ";", "<",
    "=", ">", "?", "@", "A", "B", "C", "D", "E", "F", "G", "H", "I", "J", "K",
    "L", "M", "N", "O", "P", "Q", "R", "S", "T", "U", "V", "W", "X", "Y", "Z",
    "[", "\\", "]", "^", "_", "a", "b", "c", "d", "e", "f", "g", "h",
    "i", "j", "k", "l", "m", "n", "o", "p", "q", "r", "s", "t", "u", "v", "w",
    "x", "y", "z", "{", "|", "}", "~">>

CharCode(c) == CHOOSE i \in 1..Len(Ascii) : Ascii[i] = c

\* a < b for two strings, as Python compares them.
RECURSIVE StrLess(_, _)
StrLess(a, b) ==
    IF b = <<>> THEN FALSE
    ELSE IF a = <<>> THEN TRUE
    ELSE IF a[1] = b[1] THEN StrLess(Tail(a), Tail(b))
    ELSE CharCode(a[1]) < CharCode(b[1])

\* Python's  s.replace(old, new), every occurrence, left to right.
RECURSIVE ReplaceAll(_, _, _)
ReplaceAll(s, old, new) ==
    IF s = <<>> THEN <<>>
    ELSE IF OccursAt(s, old, 1)
         THEN new \o ReplaceAll(SubSeq(s, Len(old) + 1, Len(s)), old, new)
         ELSE <<s[1]>> \o ReplaceAll(Tail(s), old, new)

\* Python's  s.rstrip(chars)  and  s.lstrip(chars): chars is a set of
\* characters, every one of which is removed from the end.
RECURSIVE RStrip(_, _)
RStrip(s, chars) ==
    IF s # <<>> /\ s[Len(s)] \in chars THEN RStrip(SubSeq(s, 1, Len(s) - 1), chars)
    ELSE s

RECURSIVE LStrip(_, _)
LStrip(s, chars) ==
    IF s # <<>> /\ s[1] \in chars THEN LStrip(Tail(s), chars)
    ELSE s

\* The characters of '.csv' and of 'DB_search_psm_'.
CsvChars == {".", "c", "s", "v"}

PrefixChars == {"D", "B", "_", "s", "e", "a", "r", "c", "h", "p", "m"}

\* sample_name, derived from the stem of the file.
SampleName(name) ==
    LStrip(RStrip(ReplaceAll(ReplaceAll(Stem(name), <<" ">>, <<"_">>),
                             <<"_", "_">>, <<"_">>),
                  CsvChars),
           PrefixChars)

\* sorted(list(Path(input_dir).glob('*.csv')), key=lambda x: x.name).
RECURSIVE SortedByName(_)
SortedByName(S) ==
    IF S = {} THEN <<>>
    ELSE LET first == CHOOSE x \in S : \A y \in S \ {x} : StrLess(x, y)
         IN  <<first>> \o SortedByName(S \ {first})

\* next((x for x in xs if re.search(x, sample_name)), ""): the first of the
\* list that occurs in the sample name, the empty string when none does.
FirstFound(xs, sample_name) ==
    IF \E i \in 1..Len(xs) : Contains(sample_name, xs[i])
    THEN xs[Min({i \in 1..Len(xs) : Contains(sample_name, xs[i])})]
    ELSE <<>>

\* POOLS of the script and the pool labels of the code.
POOLS == <<<<"P", "O", "O", "L", "_", "1">>, <<"P", "O", "O", "L", "_", "2">>, <<"P", "O", "O", "L", "_", "3">>, <<"P", "O", "O", "L", "S", "_", "1", "2", "3">>>>
sPOOLS_123 == <<"P", "O", "O", "L", "S", "_", "1", "2", "3">>
sNO_POOL == <<"N", "O", "_", "P", "O", "O", "L">>
sUnknown_Pool == <<"U", "n", "k", "n", "o", "w", "n", "_", "P", "o", "o", "l">>
sGeneric == <<"G", "e", "n", "e", "r", "i", "c">>
sSummary == <<"s", "u", "m", "m", "a", "r", "y">>

\* The positions where  POOL_(\d+)  matches in a sample name.
PoolMatches(sample_name) ==
    {i \in 1..Len(sample_name) :
        OccursAt(sample_name, sPOOL_, i) /\ DigitRun(sample_name, i + Len(sPOOL_)) > 0}

\* technique and pool of a sample, by the type of analysis.
TechniqueOf(sample_name, ts, has_techs) ==
    IF has_techs THEN FirstFound(ts, sample_name) ELSE sGeneric

PoolOf(sample_name, pools, pooled, has_techs) ==
    IF ~pooled THEN sNO_POOL
    ELSE IF has_techs THEN FirstFound(pools, sample_name)
    ELSE IF PoolMatches(sample_name) # {}
         THEN LET i == Min(PoolMatches(sample_name)) + Len(sPOOL_)
              IN  sPOOL_ \o SubSeq(sample_name, i, i + DigitRun(sample_name, i) - 1)
    ELSE IF Contains(sample_name, sALL_POOLS) THEN sALL_POOLS
    ELSE sUnknown_Pool

\* len(df[c].value_counts()): the distinct values of the column, NaN left out.
NDistinct(t, c) == Cardinality({Column(t, c)[i] : i \in 1..Len(t.rows)} \ {NaN})

\* df.loc[condition, interest_cols]: the rows whose cell of column c is one of
\* members, on the interest columns.
RECURSIVE KeepRows(_, _, _, _)
KeepRows(t, c, members, i) ==
    IF i > Len(t.rows) THEN <<>>
    ELSE (IF Column(t, c)[i] \in members THEN <<t.rows[i]>> ELSE <<>>)
            \o KeepRows(t, c, members, i + 1)

\* Every row kept, whatever its cell of column c.
Filtered_AllRows(t, c, members, interest_cols) ==
    [columns |-> interest_cols,
     rows |-> [i \in 1..Len(t.rows) |-> Realign(t.rows[i], t.columns, interest_cols)]]

Filtered(t, c, members, interest_cols) ==
    LET kept == KeepRows(t, c, members, 1)
    IN  [columns |-> interest_cols,
         rows |-> [i \in 1..Len(kept) |-> Realign(kept[i], t.columns, interest_cols)]]

\* The transposed ratio: the total over the part.
Ratio_Inverted(part, total) == [num |-> 100 * total, den |-> part]

\* (100 * part) / total, kept as the fraction it is; the division raises
\* ZeroDivisionError when den is 0.
Ratio(part, total) == [num |-> 100 * part, den |-> total]

\* The ratio the else branch gives: 0.
ZeroRatio == [num |-> 0, den |-> 1]

\* ratio_ptms_prots and ratio_ptms_peptides; both are guarded by n_prots > 0.
RatioProteins(n_prots_filt, n_prots) ==
    IF n_prots > 0 THEN Ratio(n_prots_filt, n_prots) ELSE ZeroRatio

RatioPeptides(n_peptides_filt, n_peptides, n_prots) ==
    IF n_prots > 0 THEN Ratio(n_peptides_filt, n_peptides) ELSE ZeroRatio

\* The columns of the summary, and the row of one sample.
SummaryColumns ==
    <<"Sample", "Technique", "Pool", "n Proteins Total", "n PTM Total",
      "n Peptides Total", "n Proteins Filtered", "n PTM Filtered",
      "n Peptides Filtered", "% Proteins with PTM / Total",
      "% Peptides with PTM / Total">>

SummaryRow(sample_name, technique, pool, df, df_filtered) ==
    <<sample_name, technique, pool,
      NDistinct(df, "Prot_Name"), NDistinct(df, "Clean_PTM"),
      NDistinct(df, "Peptide_Sequence"),
      NDistinct(df_filtered, "Prot_Name"), NDistinct(df_filtered, "Clean_PTM"),
      NDistinct(df_filtered, "Peptide_Sequence"),
      RatioProteins(NDistinct(df_filtered, "Prot_Name"), NDistinct(df, "Prot_Name")),
      RatioPeptides(NDistinct(df_filtered, "Peptide_Sequence"),
                    NDistinct(df, "Peptide_Sequence"), NDistinct(df, "Prot_Name"))>>

\* The columns the body of the loop reads: a missing one raises KeyError.
ColumnsRead(c, interest_cols) ==
    {"Peptide_Sequence", "Prot_Name", "Clean_PTM", c}
        \cup {interest_cols[i] : i \in 1..Len(interest_cols)}

\* What is still missing for the statistics once the artifact is written.
StatsColumnsMissing(df, interest_cols) ==
    \/ ~HasColumn(df.columns, "Prot_Name")
    \/ ~HasColumn(df.columns, "Clean_PTM")
    \/ ~HasColumn(interest_cols, "Peptide_Sequence")
    \/ ~HasColumn(interest_cols, "Prot_Name")
    \/ ~HasColumn(interest_cols, "Clean_PTM")

\* The loop of a filter pass over the files in list order. p holds what the
\* two passes differ in and the arguments of the call; out is the output
\* directory and rows the summary so far. The body raises KeyError on a column
\* it does not find and ZeroDivisionError on a ratio whose divisor is 0;
\* nothing in the function catches either.
RECURSIVE FilterLoop(_, _, _, _, _)
FilterLoop(input_dir, fs, out, rows, p) ==
    IF fs = <<>> THEN [out |-> out, rows |-> rows, raised |-> FALSE]
    ELSE IF p.skip_summaries /\ Contains(Head(fs), sSummary)
    THEN FilterLoop(input_dir, Tail(fs), out, rows, p)
    ELSE LET df == input_dir[Head(fs)]
             sample_name == SampleName(Head(fs))
             technique == TechniqueOf(sample_name, p.techniques, p.has_techniques)
             pool == PoolOf(sample_name, p.pools, p.is_pooled, p.has_techniques)
         IN  IF \E c \in ColumnsRead(p.column, p.interest_cols) : ~HasColumn(df.columns, c)
             THEN [out |-> out, rows |-> rows, raised |-> TRUE]
             ELSE LET df_filtered == Filtered(df, p.column, p.members, p.interest_cols)
                      written == WriteFile(out, sample_name \o p.suffix, df_filtered)
                      row == SummaryRow(sample_name, technique, pool, df, df_filtered)
                  IN  IF StatsColumnsMissing(df, p.interest_cols)
                      THEN [out |-> written, rows |-> rows, raised |-> TRUE]
                      ELSE IF row[10].den = 0 \/ row[11].den = 0
                      THEN [out |-> written, rows |-> rows, raised |-> TRUE]
                      ELSE FilterLoop(input_dir, Tail(fs), written, Append(rows, row), p)

\* The order of two summary rows by Technique, then Pool. cats is the order of
\* the categories when Technique is categorical, empty when it is compared as
\* a string.
TechniqueLess(x, y, cats) ==
    IF cats = <<>> THEN StrLess(x, y)
    ELSE ColIndex(cats, x) < ColIndex(cats, y)

RowLess(a, b, cats) ==
    \/ TechniqueLess(a[2], b[2], cats)
    \/ a[2] = b[2] /\ StrLess(a[3], b[3])

\* summary_df.sort_values(by=['Technique', 'Pool']): rows of equal keys keep
\* their order.
RECURSIVE SortValues(_, _)
SortValues(rows, cats) ==
    IF rows = <<>> THEN <<>>
    ELSE LET before == SortValues(SubSeq(rows, 1, Len(rows) - 1), cats)
             r == rows[Len(rows)]
             later == {i \in 1..Len(before) : RowLess(r, before[i], cats)}
             at == IF later = {} THEN Len(before) + 1 ELSE Min(later)
         IN  SubSeq(before, 1, at - 1) \o <<r>> \o SubSeq(before, at, Len(before))

\* list(summary_df['Technique'].unique()): in order of first appearance.
RECURSIVE UniqueTechniques(_)
UniqueTechniques(rows) ==
    IF rows = <<>> THEN <<>>
    ELSE LET before == UniqueTechniques(SubSeq(rows, 1, Len(rows) - 1))
             t == rows[Len(rows)][2]
         IN  IF HasColumn(before, t) THEN before ELSE Append(before, t)

\* The summary as it is exported: sorted, and with techniques sorted again with
\* the last technique moved to the first position.
SortedSummary(rows, analysis_choice) ==
    LET sorted == SortValues(rows, <<>>)
        factor_tech_vals == UniqueTechniques(sorted)
        moved == <<factor_tech_vals[Len(factor_tech_vals)]>>
                    \o SubSeq(factor_tech_vals, 1, Len(factor_tech_vals) - 1)
    IN  IF analysis_choice # <<>> /\ analysis_choice[1] = "1"
        THEN SortValues(sorted, moved)
        ELSE sorted

\* SelectSeq on the rows of the summary, and the export of a slice that is
\* not empty.
ExportSlice(out, name, rows) ==
    IF rows = <<>> THEN out
    ELSE WriteFile(out, name, [columns |-> SummaryColumns, rows |-> rows])

summary_all == <<"s", "u", "m", "m", "a", "r", "y", "_", "a", "l", "l", ".", "c", "s", "v">>
summary_pools_123 == <<"s", "u", "m", "m", "a", "r", "y", "_", "p", "o", "o", "l", "s", "_", "1", "2", "3", ".", "c", "s", "v">>
summary_123nopool == <<"s", "u", "m", "m", "a", "r", "y", "_", "1", "2", "3", "n", "o", "p", "o", "o", "l", ".", "c", "s", "v">>
summary_individual_pools == <<"s", "u", "m", "m", "a", "r", "y", "_", "i", "n", "d", "i", "v", "i", "d", "u", "a", "l", "_", "p", "o", "o", "l", "s", ".", "c", "s", "v">>
summary_all_pools == <<"s", "u", "m", "m", "a", "r", "y", "_", "a", "l", "l", "_", "p", "o", "o", "l", "s", ".", "c", "s", "v">>
summary_ == <<"s", "u", "m", "m", "a", "r", "y", "_">>

RECURSIVE ExportByTechnique(_, _, _)
ExportByTechnique(out, rows, ts) ==
    IF ts = <<>> THEN out
    ELSE ExportByTechnique(
            ExportSlice(out, summary_ \o Head(ts) \o sCsv,
                        SelectSeq(rows, LAMBDA r : r[2] = Head(ts))),
            rows, Tail(ts))

\* The exports after the loop: summary_all.csv, then the slices of the mode.
ExportSummaries(out, rows, pooled, has_techs) ==
    LET all == WriteFile(out, summary_all, [columns |-> SummaryColumns, rows |-> rows])
    IN  IF pooled /\ has_techs
        THEN ExportSlice(
                ExportSlice(
                   ExportSlice(all, summary_pools_123,
                               SelectSeq(rows, LAMBDA r : r[3] = sPOOLS_123)),
                   summary_123nopool,
                   SelectSeq(rows, LAMBDA r : r[3] = sPOOLS_123 \/ r[3] = sNO_POOL)),
                summary_individual_pools,
                SelectSeq(rows, LAMBDA r : r[3] # sPOOLS_123 /\ r[3] # sNO_POOL))
        ELSE IF pooled
        THEN ExportSlice(
                ExportSlice(all, summary_all_pools,
                            SelectSeq(rows, LAMBDA r : r[3] = sALL_POOLS)),
                summary_individual_pools,
                SelectSeq(rows, LAMBDA r : Contains(r[3], sPOOL_)))
        ELSE IF has_techs THEN ExportByTechnique(all, rows, UniqueTechniques(rows))
        ELSE all

\* A filter pass: the loop, then the sort (KeyError: 'Technique' on a summary
\* without rows) and the exports. Its result is the output directory it leaves,
\* the summary it returns and whether it raised.
FilterPass(input_dir, output_dir, p) ==
    LET csv_files == SortedByName({n \in DOMAIN input_dir : EndsWith(n, sCsv)})
        loop == FilterLoop(input_dir, csv_files, output_dir, <<>>, p)
        summary_df == SortedSummary(loop.rows, p.analysis_choice)
    IN  IF loop.raised THEN [out |-> loop.out, summary |-> <<>>, raised |-> TRUE]
        ELSE IF loop.rows = <<>> THEN [out |-> loop.out, summary |-> <<>>, raised |-> TRUE]
        ELSE [out |-> ExportSummaries(loop.out, summary_df, p.is_pooled, p.has_techniques),
              summary |-> summary_df, raised |-> FALSE]

s_filtered_vcp == <<"_", "f", "i", "l", "t", "e", "r", "e", "d", "_", "v", "c", "p", ".", "c", "s", "v">>
s_filtered_glyc == <<"_", "f", "i", "l", "t", "e", "r", "e", "d", "_", "g", "l", "y", "c", ".", "c", "s", "v">>

filter_vesiclepedia_proteins(input_dir, output_dir, ts, pools, vesiclepedia, interest_cols, pooled, has_techs, analysis_choice) ==
    FilterPass(input_dir, output_dir,
               [column |-> "Prot_Name", members |-> vesiclepedia,
                suffix |-> s_filtered_vcp, skip_summaries |-> FALSE,
                techniques |-> ts, pools |-> pools, interest_cols |-> interest_cols,
                is_pooled |-> pooled, has_techniques |-> has_techs,
                analysis_choice |-> analysis_choice])

filter_glycosylated_proteins(input_dir, output_dir, ts, pools, ptms_of_interest, interest_cols, pooled, has_techs, analysis_choice) ==
    FilterPass(input_dir, output_dir,
               [column |-> "Clean_PTM", members |-> ptms_of_interest,
                suffix |-> s_filtered_glyc, skip_summaries |-> TRUE,
                techniques |-> ts, pools |-> pools, interest_cols |-> interest_cols,
                is_pooled |-> pooled, has_techniques |-> has_techs,
                analysis_choice |-> analysis_choice])

\* INTEREST_COLS of step 6 of the script.
INTEREST_COLS ==
    <<"Peptide_Sequence", "Prot_Name", "Clean_PTM", "Accession", "Peptide", "PTM_Cluster">>

\* analysis_choice of the script: "1\n" with techniques, "2\n" without.
analysis_choice == IF has_techniques THEN <<"1", "\n">> ELSE <<"2", "\n">>

\* Accessions: two of the reference set and one outside it; the column
\* vesiclepedia["Accession"].
protP1 == <<"P", "1">>
protP2 == <<"P", "2">>
protP3 == <<"P", "3">>

vesiclepedia == {protP1, protP3}

\* ptms_of_interest: the first column of the glycosylation list, NaN dropped.
ptms_of_interest == {rawHexNAc, rawFuco}

\* A sample file as steps 4.1 to 4.3 leave it, from (peptide sequence, protein,
\* cleaned modification) triples.
SampleColumns ==
    <<"Accession", "Peptide", "Prot_Name", "Peptide_Sequence", "Clean_PTM", "PTM_Cluster">>

SampleTable(triples) ==
    [columns |-> SampleColumns,
     rows |-> [i \in 1..Len(triples) |->
                 <<<<"a">>, triples[i][1], triples[i][2], triples[i][1], triples[i][3],
                   Classify(astype_str(triples[i][3]))>>]]

\* The table without one of its columns.
WithoutColumn(t, c) ==
    LET keep == SelectSeq(t.columns, LAMBDA x : x # c)
    IN  [columns |-> keep,
         rows |-> [i \in 1..Len(t.rows) |-> Realign(t.rows[i], t.columns, keep)]]

\* Contents of the sample files the filter passes find.
FilterTables ==
    {SampleTable(<<>>),
     SampleTable(<<<<<<"A">>, protP1, rawHexNAc>>>>),
     SampleTable(<<<<<<"A">>, protP1, rawHexNAc>>, <<<<"B">>, protP2, rawHexNAc>>>>),
     SampleTable(<<<<<<"A">>, protP1, rawPhospho>>, <<<<"A">>, protP1, rawHexNAc>>>>),
     SampleTable(<<<<NaN, protP1, rawHexNAc>>>>),
     SampleTable(<<<<<<"A">>, NaN, rawHexNAc>>>>),
     SampleTable(<<<<<<"A">>, protP2, rawHexNAc>>>>),
     SampleTable(<<<<<<"A">>, protP1, NaN>>, <<<<"B">>, protP3, rawPhospho>>>>),
     SampleTable(<<<<<<"A">>, protP2, rawFuco>>, <<NaN, protP1, rawFuco>>>>),
     WithoutColumn(SampleTable(<<<<<<"A">>, protP1, rawHexNAc>>>>), "Prot_Name"),
     WithoutColumn(SampleTable(<<<<<<"A">>, protP1, rawHexNAc>>>>), "Peptide_Sequence"),
     WithoutColumn(SampleTable(<<<<<<"A">>, protP1, rawHexNAc>>>>), "Clean_PTM"),
     WithoutColumn(SampleTable(<<<<<<"A">>, protP1, rawHexNAc>>>>), "Accession")}

\* Techniques of the Default set of set_techs beside SEC and UC, and the set.
sRaw_milk == <<"R", "a", "w", "_", "m", "i", "l", "k">>
sExoGAG == <<"E", "x", "o", "G", "A", "G">>
sIP_CD9 == <<"I", "P", "_", "C", "D", "9">>

DefaultTechniques == <<sRaw_milk, sExoGAG, sSEC, sIP_CD9, sUC>>

\* The technique lists the passes run with: none, a custom one, the default one.
FilterTechniqueLists == {<<>>, <<sSEC, sUC>>, DefaultTechniques}

nRaw_milk == sRaw_milk \o sCsv
nIP_CD9_NO_POOL == sIP_CD9 \o <<"_">> \o sNO_POOL \o sCsv
nms_UC == <<"m", "s", "_">> \o sUC \o sCsv

FilterNames == {nSEC_POOL_1, nUC_POOL_1, nSEC_POOLS_123, nUC, nRaw_milk, nIP_CD9_NO_POOL, nms_UC}

FilterDirs ==
    UNION {[S -> FilterTables] :
              S \in {S \in SUBSET FilterNames : Cardinality(S) <= MaxFiles}}

\* Step 6 of the script: the input directory as section 4 left it, the output
\* directories as create_output_directories made them.
InitFilter ==
    /\ pc = "filter_vcp"
    /\ dir \in FilterDirs
    /\ output = NoOutput
    /\ is_pooled \in BOOLEAN
    /\ techniques \in FilterTechniqueLists
    /\ todo = {}
    /\ nops = 0
    /\ last = [op |-> "init", action |-> "none", branch |-> "none", pre |-> dir,
               raised |-> FALSE, file |-> <<>>]
    /\ prev = last

\* Step 6.1: the call of filter_vesiclepedia_proteins on the input directory.
FilterVesiclepedia ==
    /\ pc = "filter_vcp"
    /\ LET r == filter_vesiclepedia_proteins(dir, output.vesiclepedia, techniques, POOLS,
                                             vesiclepedia, INTEREST_COLS, is_pooled,
                                             has_techniques, analysis_choice)
       IN  /\ output' = [output EXCEPT !.vesiclepedia = r.out]
           /\ pc' = IF r.raised THEN "crashed" ELSE "filter_glyc"
           /\ last' = [op |-> "filter_vcp", action |-> "none", branch |-> "none",
                       pre |-> dir, raised |-> r.raised, file |-> <<>>]
    /\ prev' = last
    /\ UNCHANGED <<dir, is_pooled, techniques, todo, nops>>

\* Step 6.2: the call of filter_glycosylated_proteins on the output of 6.1.
FilterGlycosylated ==
    /\ pc = "filter_glyc"
    /\ LET r == filter_glycosylated_proteins(output.vesiclepedia,
                                             output.vesiclepedia_glycosylated, techniques,
                                             POOLS, ptms_of_interest, INTEREST_COLS,
                                             is_pooled, has_techniques, analysis_choice)
       IN  /\ output' = [output EXCEPT !.vesiclepedia_glycosylated = r.out]
           /\ pc' = IF r.raised THEN "crashed" ELSE "filtered"
           /\ last' = [op |-> "filter_glyc", action |-> "none", branch |-> "none",
                       pre |-> output.vesiclepedia, raised |-> r.raised, file |-> <<>>]
    /\ prev' = last
    /\ UNCHANGED <<dir, is_pooled, techniques, todo, nops>>

NextFilter == FilterVesiclepedia \/ FilterGlycosylated

SpecFilter == InitFilter /\ [][NextFilter]_vars

\* ------------------------------------------- claims on the filter passes
FilterOps == {"filter_vcp", "filter_glyc"}

\* The output directory of the last pass, the sample files it was given, and
\* what the two passes differ in.
PassOut ==
    IF last.op = "filter_vcp" THEN output.vesiclepedia
    ELSE output.vesiclepedia_glycosylated

PassInputs ==
    {n \in DOMAIN last.pre :
        EndsWith(n, sCsv) /\ (last.op = "filter_glyc" => ~Contains(n, sSummary))}

PassColumn == IF last.op = "filter_vcp" THEN "Prot_Name" ELSE "Clean_PTM"

PassMembers == IF last.op = "filter_vcp" THEN vesiclepedia ELSE ptms_of_interest

ArtifactName(n) ==
    SampleName(n) \o (IF last.op = "filter_vcp" THEN s_filtered_vcp ELSE s_filtered_glyc)

\* A sample file with every column the passes expect.
HasExpectedColumns(t) ==
    \A i \in 1..Len(INTEREST_COLS) : HasColumn(t.columns, INTEREST_COLS[i])

\* The rows of the summaries the last pass wrote (summary_all.csv and slices).
SummaryFiles == {n \in DOMAIN PassOut : PassOut[n].columns = SummaryColumns}

SummaryRows == UNION {{PassOut[n].rows[i] : i \in 1..Len(PassOut[n].rows)} : n \in SummaryFiles}

\* The summary has a row for the sample of file n.
HasSummaryRow(n) ==
    /\ summary_all \in DOMAIN PassOut
    /\ \E i \in 1..Len(PassOut[summary_all].rows) :
          PassOut[summary_all].rows[i][1] = SampleName(n)

IsZero(ratio) == ratio.den > 0 /\ ratio.num = 0

InPercentRange(ratio) ==
    ratio.den > 0 /\ 0 <= ratio.num /\ ratio.num <= 100 * ratio.den

\* C16: the ratios never raise a division by zero: a pass over sample files
\* that all have the expected columns does not fail and gives every sample its
\* summary row, in which the protein ratio is 0 when the total of proteins is 0
\* and the peptide ratio is 0 when the total of peptides is 0.
C16_RatiosNeverDivideByZero ==
    (/\ last.op \in FilterOps
     /\ PassInputs # {}
     /\ \A n \in PassInputs : HasExpectedColumns(last.pre[n])) =>
        /\ ~last.raised
        /\ \A n \in PassInputs : HasSummaryRow(n)
        /\ \A r \in SummaryRows :
              /\ r[4] = 0 => IsZero(r[10])
              /\ r[6] = 0 => IsZero(r[11])

\* C17, as claimed: in every summary row each filtered count is at most its
\* total, each ratio lies in [0,100], and a ratio is 0 exactly when its total
\* is 0.
C17_FilterConservation_AsClaimed ==
    last.op \in FilterOps =>
        \A r \in SummaryRows :
            /\ r[7] <= r[4] /\ r[8] <= r[5] /\ r[9] <= r[6]
            /\ InPercentRange(r[10]) /\ InPercentRange(r[11])
            /\ IsZero(r[10]) <=> r[4] = 0
            /\ IsZero(r[11]) <=> r[6] = 0

\* C17, amended: in every summary row each filtered count is at most its
\* total, each ratio lies in [0,100], and a ratio is 0 whenever its filtered
\* count is 0, so whenever its total is 0.
C17_FilterConservation ==
    last.op \in FilterOps =>
        \A r \in SummaryRows :
            /\ r[7] <= r[4] /\ r[8] <= r[5] /\ r[9] <= r[6]
            /\ InPercentRange(r[10]) /\ InPercentRange(r[11])
            /\ r[7] = 0 => IsZero(r[10])
            /\ r[9] = 0 => IsZero(r[11])
            /\ r[4] = 0 => IsZero(r[10])
            /\ r[6] = 0 => IsZero(r[11])

\* C17 witness: a summary row of a sample of which the filter kept one protein
\* of two, and another of a sample with proteins of which it kept none.
C17_Witness ==
    /\ last.op \in FilterOps
    /\ \E r \in SummaryRows : r[4] = 2 /\ r[7] = 1 /\ r[10] = [num |-> 100, den |-> 2]
    /\ \E r \in SummaryRows : r[4] > 0 /\ r[7] = 0 /\ IsZero(r[10])

\* C18: a pass over a directory without sample files does not fail and writes
\* a summary without rows.
C18_EmptyDirectoryIsSafe ==
    (last.op \in FilterOps /\ PassInputs = {}) =>
        /\ ~last.raised
        /\ summary_all \in DOMAIN PassOut
        /\ PassOut[summary_all].rows = <<>>

\* The rows of table t whose cell of column c is one of members, on the
\* interest columns.
MemberRows(t, c, members) ==
    LET kept == SelectSeq(t.rows, LAMBDA r : r[ColIndex(t.columns, c)] \in members)
    IN  [i \in 1..Len(kept) |->
            [k \in 1..Len(INTEREST_COLS) |-> kept[i][ColIndex(t.columns, INTEREST_COLS[k])]]]

\* No other sample file of the pass has the sample name of n.
SampleNameUnshared(n) == \A n2 \in PassInputs \ {n} : SampleName(n2) # SampleName(n)

\* The artifact the pass wrote for sample file n holds exactly the rows of n
\* that pass the membership test of the pass, on the interest columns.
ArtifactIsMemberRows(n) ==
    /\ HasExpectedColumns(last.pre[n])
    /\ PassOut[ArtifactName(n)].columns = INTEREST_COLS
    /\ PassOut[ArtifactName(n)].rows = MemberRows(last.pre[n], PassColumn, PassMembers)
    /\ last.op = "filter_glyc" =>
          \A i \in 1..Len(PassOut[ArtifactName(n)].rows) :
              /\ Column(PassOut[ArtifactName(n)], "Prot_Name")[i] \in vesiclepedia
              /\ Column(PassOut[ArtifactName(n)], "Clean_PTM")[i] \in ptms_of_interest

\* C19: filter membership: the artifact a pass writes for a sample file holds
\* exactly the rows of that file whose protein is in the reference set (pass 1),
\* or whose cleaned modification is in the set of interest (pass 2, on the
\* artifacts of pass 1), on the interest columns; so every row of a pass 2
\* artifact satisfies both.
C19_FilterMembership ==
    last.op \in FilterOps =>
        \A n \in PassInputs :
            ArtifactName(n) \in DOMAIN PassOut => ArtifactIsMemberRows(n)

\* The same for the sample files whose sample name no other file shares.
FilterMembershipOfUnsharedNames ==
    last.op \in FilterOps =>
        \A n \in PassInputs :
            (SampleNameUnshared(n) /\ ArtifactName(n) \in DOMAIN PassOut) =>
                ArtifactIsMemberRows(n)

\* A state of C19's case: pass 2 has written an artifact of one row from a pass 1
\* artifact of two, and pass 1 an artifact of one row from a sample file of two.
C19_Witness ==
    /\ last.op = "filter_glyc"
    /\ \E n \in PassInputs :
          /\ ArtifactName(n) \in DOMAIN PassOut
          /\ Len(last.pre[n].rows) = 2
          /\ Len(PassOut[ArtifactName(n)].rows) = 1
    /\ \E m \in DOMAIN dir :
          /\ Len(dir[m].rows) = 2
          /\ Len(output.vesiclepedia[SampleName(m) \o s_filtered_vcp].rows) = 1

\* A sample file on which no ratio divides by 0.
RatiosDefined(t) == NDistinct(t, "Prot_Name") > 0 => NDistinct(t, "Peptide_Sequence") > 0

\* C20: a pass isolates a file that lacks an expected column: it does not fail,
\* and every other sample file has its artifact and its summary row.
C20_FilterIsolatesBadFile ==
    (/\ last.op \in FilterOps
     /\ \E n \in PassInputs : ~HasExpectedColumns(last.pre[n])
     /\ \A n \in PassInputs : HasExpectedColumns(last.pre[n]) => RatiosDefined(last.pre[n])) =>
        /\ ~last.raised
        /\ \A n \in PassInputs :
              HasExpectedColumns(last.pre[n]) =>
                  (ArtifactName(n) \in DOMAIN PassOut /\ HasSummaryRow(n))

\* C21: each pass writes one artifact per input sample file: no two sample
\* files of a pass have the same sample name, and a pass that ends has written
\* as many artifacts as it had sample files.
C21_OneArtifactPerSample ==
    last.op \in FilterOps =>
        /\ \A n1, n2 \in PassInputs : n1 # n2 => SampleName(n1) # SampleName(n2)
        /\ ~last.raised =>
              Cardinality({n \in DOMAIN PassOut : PassOut[n].columns # SummaryColumns})
                  = Cardinality(PassInputs)

\* The summary the last pass wrote, the names of the slices beside it, and the
\* rows of a slice as a set of positions of the summary.
SummaryAll == PassOut[summary_all].rows

Slices == SummaryFiles \ {summary_all}

RowsOfSummary(keep(_)) == SelectSeq(SummaryAll, keep)

IsIndividualPoolRow(r) == HasPoolDigit(r[1])

\* C24: the slices of the summary by mode. Pooled with techniques: only the
\* slices of POOLS_123, of POOLS_123 with the unpooled, and of the individual
\* pools, the last with exactly the rows of individual pool files. Pooled
\* without techniques: only the slices of ALL_POOLS and of the individual
\* pools. Unpooled with techniques: one slice per technique, every row in
\* exactly one. Unpooled without techniques: no slice.
C24_SlicesByMode ==
    (last.op \in FilterOps /\ ~last.raised) =>
        /\ summary_all \in SummaryFiles
        /\ (is_pooled /\ has_techniques) =>
              /\ Slices \subseteq {summary_pools_123, summary_123nopool,
                                   summary_individual_pools}
              /\ LET rows == RowsOfSummary(IsIndividualPoolRow)
                 IN  IF rows = <<>> THEN summary_individual_pools \notin Slices
                     ELSE /\ summary_individual_pools \in Slices
                          /\ PassOut[summary_individual_pools].rows = rows
        /\ (is_pooled /\ ~has_techniques) =>
              Slices \subseteq {summary_all_pools, summary_individual_pools}
        /\ (~is_pooled /\ has_techniques) =>
              \A i \in 1..Len(SummaryAll) :
                  Cardinality({n \in Slices :
                      \E k \in 1..Len(PassOut[n].rows) :
                          PassOut[n].rows[k] = SummaryAll[i]}) = 1
        /\ (~is_pooled /\ ~has_techniques) => Slices = {}

\* C25: with the default techniques, the rows of Raw_milk come before the rows
\* of every other technique in the summary.
C25_RawMilkFirst ==
    (last.op \in FilterOps /\ ~last.raised /\ techniques = DefaultTechniques) =>
        \A i, k \in 1..Len(SummaryAll) :
            (SummaryAll[i][2] = sRaw_milk /\ SummaryAll[k][2] # sRaw_milk) => i < k

\* C30: once both passes have run, every sample with a row in the summary of
\* pass 1 has one row in the summary of pass 2, whose totals of proteins,
\* modifications and peptides are the filtered counts of the row of pass 1.
C30_StageChaining ==
    pc = "filtered" =>
        LET s1 == output.vesiclepedia[summary_all].rows
            s2 == output.vesiclepedia_glycosylated[summary_all].rows
        IN  \A i \in 1..Len(s1) :
                /\ \E k \in 1..Len(s2) : s2[k][1] = SampleName(s1[i][1] \o s_filtered_vcp)
                /\ \A k \in 1..Len(s2) :
                      s2[k][1] = SampleName(s1[i][1] \o s_filtered_vcp) =>
                          /\ s2[k][4] = s1[i][7]
                          /\ s2[k][5] = s1[i][8]
                          /\ s2[k][6] = s1[i][9]

\* The same for the samples whose name no other sample file shares.
StageChainingOfUnsharedNames ==
    pc = "filtered" =>
        LET s1 == output.vesiclepedia[summary_all].rows
            s2 == output.vesiclepedia_glycosylated[summary_all].rows
        IN  \A i \in 1..Len(s1) :
                (\A j \in 1..Len(s1) : s1[j][1] = s1[i][1] => j = i) =>
                    /\ \E k \in 1..Len(s2) : s2[k][1] = SampleName(s1[i][1] \o s_filtered_vcp)
                    /\ \A k \in 1..Len(s2) :
                          s2[k][1] = SampleName(s1[i][1] \o s_filtered_vcp) =>
                              /\ s2[k][4] = s1[i][7]
                              /\ s2[k][5] = s1[i][8]
                              /\ s2[k][6] = s1[i][9]

\* C27: with both kinds of file present, the choice auto combines when the
\* individual files are at least as many as the combined files and splits
\* otherwise, and a choice that is none of combine, separate and auto changes
\* no file.
C27_AmbiguousStatePolicy ==
    (last.op = "handle" /\ last.branch = "ambiguous") =>
        /\ last.file = sAuto =>
              last.action =
                  (IF Cardinality(individual_pool_files(last.pre))
                          >= Cardinality(combined_files(last.pre))
                   THEN "combine" ELSE "separate")
        /\ last.file \notin {sCombine, sSeparate, sAuto} => dir = last.pre

\* The first clause of C27 alone: what auto selects.
AutoSelectsByCount ==
    (last.op = "handle" /\ last.branch = "ambiguous" /\ last.file = sAuto) =>
        last.action =
            (IF Cardinality(individual_pool_files(last.pre))
                    >= Cardinality(combined_files(last.pre))
             THEN "combine" ELSE "separate")

\* Auto has run with a tie, and with more combined files than individual ones.
AutoBothWays ==
    /\ last.op = "handle" /\ last.branch = "ambiguous" /\ last.file = sAuto
    /\ last.action = "separate"

\* The call wrote a combined file; the call wrote an individual pool file.
WroteCombined(call, after) == WrittenBy(call, after) \cap combined_files(after) # {}

WroteIndividual(call, after) ==
    WrittenBy(call, after) \cap individual_pool_files(after) # {}

\* C29: after a combine that wrote a combined file, or a split that wrote an
\* individual pool file, the directory holds both kinds of file, and a pooled
\* call of handle_pool_files that follows at once takes the ambiguous branch.
C29_RepeatedCallIsAmbiguous ==
    /\ (/\ last.op = "handle"
        /\ \/ last.action = "combine" /\ WroteCombined(last, dir)
           \/ last.action = "separate" /\ WroteIndividual(last, dir)) =>
            /\ individual_pool_files(dir) # {}
            /\ combined_files(dir) # {}
            /\ Branch(dir, is_pooled) = "ambiguous"
    /\ (/\ last.op = "handle" /\ prev.op = "handle"
        /\ \/ prev.action = "combine" /\ WroteCombined(prev, last.pre)
           \/ prev.action = "separate" /\ WroteIndividual(prev, last.pre)) =>
            last.branch = "ambiguous"

\* C29 witness: a second call took the ambiguous branch after a combine that
\* had found individual files only and wrote a combined file.
C29_Witness ==
    /\ last.op = "handle" /\ prev.op = "handle" /\ last.branch = "ambiguous"
    /\ prev.action = "combine" /\ prev.branch = "individual_only"
    /\ WroteCombined(prev, last.pre)

\* The same after a split that had found combined files only.
AmbiguousAfterSplit ==
    /\ last.op = "handle" /\ prev.op = "handle" /\ last.branch = "ambiguous"
    /\ prev.action = "separate" /\ prev.branch = "combined_only"
    /\ WroteIndividual(prev, last.pre)

\* -------------------------------------- sequences of combine and split
\* Largest number of combine and split actions in one sequence.
MaxSequence == 3

\* Directories of individual pool files only, no two with the same rows.
IndividualNames == {nSEC_POOL_1, nSEC_POOL_2, nSEC_POOL_10, nUC_POOL_1}

IndividualDirs ==
    {d \in InitDirs(IndividualNames) :
        d # <<>> /\ \A n1, n2 \in DOMAIN d : n1 # n2 => d[n1] # d[n2]}

InitSequence ==
    /\ pc = "sequence"
    /\ dir \in IndividualDirs
    /\ is_pooled = TRUE
    /\ techniques \in TechniqueLists
    /\ output = NoOutput
    /\ todo = {}
    /\ nops = 0
    /\ last = [op |-> "init", action |-> "none", branch |-> "none", pre |-> dir,
               raised |-> FALSE, file |-> <<>>]
    /\ prev = last

\* One call of handle_pool_files that runs the given action, by its branch or
\* by the choice typed in the ambiguous branch.
SequenceStep(action) ==
    /\ pc = "sequence"
    /\ nops < MaxSequence
    /\ \E choice \in IF Branch(dir, is_pooled) = "ambiguous"
                      THEN {sCombine, sSeparate} ELSE {<<>>} :
          /\ Decide(dir, is_pooled, choice) = action
          /\ \E o \in handle_pool_files(dir, techniques, is_pooled, has_techniques, choice) :
                /\ dir' = o.dir
                /\ last' = [op |-> "handle", action |-> action,
                            branch |-> Branch(dir, is_pooled), pre |-> dir,
                            raised |-> o.raised, file |-> choice]
    /\ nops' = nops + 1
    /\ prev' = last
    /\ UNCHANGED <<is_pooled, techniques, pc, todo, output>>

CombineStep == SequenceStep("combine")

SeparateStep == SequenceStep("separate")

NextSequence == CombineStep \/ SeparateStep

SpecSequence == InitSequence /\ [][NextSequence]_vars

\* The peptides of a table; every row of the original files has its own.
Peptides(t) == Column(t, "Peptide")

\* C28: in a sequence of combine and split actions on a directory that starts
\* with individual pool files only, every combined file a combine writes holds
\* each row of the original files at most once.
C28_NoRowTwice ==
    (last.op = "handle" /\ last.action = "combine") =>
        \A n \in WrittenBy(last, dir) :
            IsCombinedName(n) =>
                \A i, k \in 1..Len(dir[n].rows) :
                    Peptides(dir[n])[i] = Peptides(dir[n])[k] => i = k

\* ------------------------------------------------ count_proteins_by_ptm
INTEREST_COL == "PTM_Cluster"
GROUP_BY_COL == "Prot_Name"

s_PTM_types_by_protein == <<"_", "P", "T", "M", "_", "t", "y", "p", "e", "s", "_", "b", "y", "_", "p", "r", "o", "t", "e", "i", "n", ".", "c", "s", "v">>

\* The characters \W leaves: letters, digits and the underscore.
WordChars ==
    UpperCase \cup Digits \cup
    {"a", "b", "c", "d", "e", "f", "g", "h", "i", "j", "k", "l", "m", "n", "o", "p",
     "q", "r", "s", "t", "u", "v", "w", "x", "y", "z", "_"}

\* summary['Value'].str.replace(r"\W", "", regex=True).
RemoveNonWord(x) == SelectSeq(x, LAMBDA ch : ch \in WordChars)

\* df.groupby(group_by_col)[interest_col].value_counts().reset_index(): one row
\* for every pair of a group and a value that occurs in it; rows with an empty
\* key or an empty value are left out.
GroupedPairs(df, group_by_col, interest_col) ==
    {<<Column(df, group_by_col)[i], Column(df, interest_col)[i]>> :
        i \in {k \in 1..Len(df.rows) :
                  Column(df, group_by_col)[k] # NaN /\ Column(df, interest_col)[k] # NaN}}

\* df_grouped[interest_col].value_counts(): for every value, the number of the
\* rows of df_grouped that carry it.
PtmCounts(df, group_by_col, interest_col) ==
    LET pairs == GroupedPairs(df, group_by_col, interest_col)
    IN  [v \in {pr[2] : pr \in pairs} |-> Cardinality({pr \in pairs : pr[2] = v})]

\* summary['Count'].sum(): the sum of f over S.
RECURSIVE SumOver(_, _)
SumOver(f, S) ==
    IF S = {} THEN 0
    ELSE LET x == CHOOSE y \in S : TRUE IN f[x] + SumOver(f, S \ {x})

\* The summaries value_counts can give: the values by falling count, those of
\* equal count in any order, with the share of each in the sum of the counts.
SummaryTables(df, group_by_col, interest_col) ==
    LET ptm_counts == PtmCounts(df, group_by_col, interest_col)
        total_count == SumOver(ptm_counts, DOMAIN ptm_counts)
        falling == {o \in Orders(DOMAIN ptm_counts) :
                       \A i \in 1..Len(o) - 1 : ptm_counts[o[i]] >= ptm_counts[o[i + 1]]}
    IN  {[columns |-> <<"Value", "Count", "Percentage">>,
          rows |-> [i \in 1..Len(o) |->
                      <<RemoveNonWord(astype_str(o[i])), ptm_counts[o[i]],
                        [num |-> 100 * ptm_counts[o[i]], den |-> total_count]>>]] :
            o \in falling}

\* The loop over the files: the outcomes (output directory, raised or not).
RECURSIVE CountLoop(_, _, _, _, _)
CountLoop(input_dir, csv_files, out, interest_col, group_by_col) ==
    IF csv_files = <<>> THEN {Outcome(out, FALSE)}
    ELSE LET csv_file == Head(csv_files)
             df == input_dir[csv_file]
         IN  IF Contains(csv_file, sSummary)
             THEN CountLoop(input_dir, Tail(csv_files), out, interest_col, group_by_col)
             ELSE IF ~(HasColumn(df.columns, group_by_col) /\ group_by_col = "Prot_Name")
             THEN CountLoop(input_dir, Tail(csv_files), out, interest_col, group_by_col)
             ELSE IF ~HasColumn(df.columns, interest_col)
             THEN {Outcome(out, TRUE)}
             ELSE UNION {CountLoop(input_dir, Tail(csv_files),
                                   WriteFile(out, Stem(csv_file) \o s_PTM_types_by_protein,
                                             summary),
                                   interest_col, group_by_col) :
                            summary \in SummaryTables(df, group_by_col, interest_col)}

count_proteins_by_ptm(input_dir, output_dir, interest_col, group_by_col) ==
    CountLoop(input_dir, SortedByName({n \in DOMAIN input_dir : EndsWith(n, sCsv)}),
              output_dir, interest_col, group_by_col)

\* Step 8.1 of the script: the input directory as section 4 left it.
CountNames == {nSEC, nUC}

CountDirs ==
    UNION {[S -> FilterTables] :
              S \in {S \in SUBSET CountNames : Cardinality(S) <= MaxFiles}}

InitCount ==
    /\ pc = "count_proteins"
    /\ dir \in CountDirs
    /\ is_pooled \in BOOLEAN
    /\ techniques \in TechniqueLists
    /\ output = NoOutput
    /\ todo = {}
    /\ nops = 0
    /\ last = [op |-> "init", action |-> "none", branch |-> "none", pre |-> dir,
               raised |-> FALSE, file |-> <<>>]
    /\ prev = last

CountProteinsByPtm ==
    /\ pc = "count_proteins"
    /\ \E o \in count_proteins_by_ptm(dir, output.total_proteins, INTEREST_COL, GROUP_BY_COL) :
          /\ output' = [output EXCEPT !.total_proteins = o.dir]
          /\ pc' = IF o.raised THEN "crashed" ELSE "counted"
          /\ last' = [op |-> "count_proteins", action |-> "none", branch |-> "none",
                      pre |-> dir, raised |-> o.raised, file |-> <<>>]
    /\ prev' = last
    /\ UNCHANGED <<dir, is_pooled, techniques, todo, nops>>

NextCount == CountProteinsByPtm

SpecCount == InitCount /\ [][NextCount]_vars

\* The number of distinct proteins of a sample file.
DistinctProteins(df) == Cardinality({Column(df, "Prot_Name")[i] : i \in 1..Len(df.rows)} \ {NaN})

\* C22: grouped count invariant: in the table count_proteins_by_ptm writes for
\* a file, the counts add up to the number of distinct proteins of the file.
C22_CountsSumToProteins ==
    last.op = "count_proteins" =>
        \A n \in DOMAIN dir :
            Stem(n) \o s_PTM_types_by_protein \in DOMAIN output.total_proteins =>
                LET t == output.total_proteins[Stem(n) \o s_PTM_types_by_protein]
                IN  SumOver([i \in 1..Len(t.rows) |-> t.rows[i][2]], 1..Len(t.rows))
                        = DistinctProteins(dir[n])

\* ------------------------------------------------ extract_protein_names
ACCESSION_COL == "Accession"
PROTEIN_NAME_COL == "Prot_Name"

AlphaNum == UpperCase \cup Digits

\* Length of the match of the first alternative of PROTEIN_PATTERN,
\* [A-Z]\d[A-Z0-9]{3}[0-9]-?\d* , at position i of s; 0 when there is none.
\* The dash and the digits are taken greedily.
FirstAlternative(s, i) ==
    IF /\ i + 5 <= Len(s)
       /\ s[i] \in UpperCase
       /\ s[i + 1] \in Digits
       /\ \A k \in 2..4 : s[i + k] \in AlphaNum
       /\ s[i + 5] \in Digits
    THEN LET dash == IF i + 6 <= Len(s) /\ s[i + 6] = "-" THEN 1 ELSE 0
         IN  6 + dash + DigitRun(s, i + 6 + dash)
    ELSE 0

\* Number of the characters of [A-Z0-9] that follow one another from position i.
RECURSIVE AlphaNumRun(_, _)
AlphaNumRun(s, i) ==
    IF i <= Len(s) /\ s[i] \in AlphaNum THEN 1 + AlphaNumRun(s, i + 1) ELSE 0

\* Length of the match of the second alternative,
\* [A-NR-Z][0-9][A-Z][A-Z0-9]{2}[0-9][A-Z]?[A-Z0-9]+[0-9] , at position i of s;
\* 0 when there is none. The tail takes the longest run of [A-Z0-9] of two
\* characters or more that ends with a digit.
SecondAlternative(s, i) ==
    IF /\ i + 5 <= Len(s)
       /\ s[i] \in UpperCase \ {"O", "P", "Q"}
       /\ s[i + 1] \in Digits
       /\ s[i + 2] \in UpperCase
       /\ \A k \in 3..4 : s[i + k] \in AlphaNum
       /\ s[i + 5] \in Digits
    THEN LET tails == {m \in 2..AlphaNumRun(s, i + 6) : s[i + 5 + m] \in Digits}
         IN  IF tails = {} THEN 0 ELSE 6 + Max(tails)
    ELSE 0

\* Length of the match of PROTEIN_PATTERN at position i: the first alternative
\* that matches there.
PROTEIN_PATTERN(s, i) ==
    IF FirstAlternative(s, i) > 0 THEN FirstAlternative(s, i) ELSE SecondAlternative(s, i)

\* regex.findall(accession_str) from position i on: the matches from left to
\* right, each search starting where the match before it ended.
RECURSIVE findall(_, _)
findall(s, i) ==
    IF i > Len(s) THEN <<>>
    ELSE IF PROTEIN_PATTERN(s, i) > 0
         THEN <<SubSeq(s, i, i + PROTEIN_PATTERN(s, i) - 1)>>
                  \o findall(s, i + PROTEIN_PATTERN(s, i))
         ELSE findall(s, i + 1)

extract_and_clean_accessions(accession_str) == findall(accession_str, 1)

\* The list the lambda of extract_protein_names gives a cell: [] for an empty one.
AccessionList(x) == IF x = NaN THEN <<>> ELSE extract_and_clean_accessions(x)

\* df.explode drops a row whose list is empty (not what pandas does).
ExplodeRow_DropEmpty(row, matches) ==
    [k \in 1..Len(matches) |-> Append(row, matches[k])]

\* df.explode(new_col) on one row: a row for every element of the list, the
\* other cells repeated; one row with an empty cell when the list is empty.
ExplodeRow(row, matches) ==
    IF matches = <<>> THEN <<Append(row, NaN)>>
    ELSE [k \in 1..Len(matches) |-> Append(row, matches[k])]

\* df without the column c, c being at position j.
WithoutCell(row, j) == [k \in 1..(Len(row) - 1) |-> IF k < j THEN row[k] ELSE row[k + 1]]

\* df[new_col] = ... followed by df.explode(new_col), on the rows from i on.
\* A column new_col the file already has is replaced in place; here the new
\* column is absent from every input, so it is appended.
RECURSIVE ExplodeRows(_, _, _)
ExplodeRows(rows, at, i) ==
    IF i > Len(rows) THEN <<>>
    ELSE ExplodeRow(rows[i], AccessionList(rows[i][at])) \o ExplodeRows(rows, at, i + 1)

\* The body of the loop of extract_protein_names for one file.
ExtractFile(df, target_col, new_col) ==
    IF HasColumn(df.columns, target_col)
    THEN [columns |-> Append(df.columns, new_col),
          rows |-> ExplodeRows(df.rows, ColIndex(df.columns, target_col), 1)]
    ELSE df

\* extract_protein_names: every file of the directory is rewritten in place.
extract_protein_names(input_dir, target_col, new_col) ==
    [n \in DOMAIN input_dir |-> ExtractFile(input_dir[n], target_col, new_col)]

accNone == <<"c", "o", "n", "t", "a", "m">>
accOne == <<"P", "1", "2", "3", "4", "5">>
accTwo == <<"P", "1", "2", "3", "4", "5", ";", " ", "Q", "9", "X", "Y", "Z", "0">>
accLong == <<"A", "0", "A", "0", "2", "4", "R", "1", "6", "1">>
accIsoform == <<"s", "p", "|", "P", "0", "2", "6", "6", "6", "-", "2", "|", "C", "A", "S", "B">>

AccessionCells == {NaN, accNone, accOne, accTwo, accLong, accIsoform}

PeptideCells == {<<"A">>, <<"B">>}

ExtractColumns == <<"Peptide", ACCESSION_COL>>

\* The files of the working directory at step 4: up to two rows; one file has
\* no accession column.
ExtractTables ==
    {[columns |-> ExtractColumns, rows |-> r] :
        r \in {<<>>} \cup {<<<<p, a>>>> : p \in PeptideCells, a \in AccessionCells}
                \cup {<<<<<<"A">>, a>>, <<<<"B">>, b>>>> : a \in AccessionCells, b \in AccessionCells}}
    \cup {[columns |-> <<"Peptide">>, rows |-> <<<<<<"A">>>>>>]}

ExtractNames == {nSEC, nUC}

ExtractDirs ==
    UNION {[names -> ExtractTables] : names \in SUBSET ExtractNames}

InitExtract ==
    /\ pc = "extract_names"
    /\ dir \in ExtractDirs
    /\ is_pooled \in BOOLEAN
    /\ techniques = IF is_pooled THEN <<>> ELSE <<sSEC, sUC>>
    /\ output = NoOutput
    /\ todo = {}
    /\ nops = 0
    /\ last = [op |-> "init", action |-> "none", branch |-> "none", pre |-> dir,
               raised |-> FALSE, file |-> <<>>]
    /\ prev = last

\* Step 4 of the script.
ExtractProteinNames ==
    /\ pc = "extract_names"
    /\ dir' = extract_protein_names(dir, ACCESSION_COL, PROTEIN_NAME_COL)
    /\ pc' = "extracted"
    /\ last' = [op |-> "extract_names", action |-> "none", branch |-> "none",
                pre |-> dir, raised |-> FALSE, file |-> <<>>]
    /\ prev' = last
    /\ UNCHANGED <<is_pooled, techniques, todo, nops, output>>

NextExtract == ExtractProteinNames

SpecExtract == InitExtract /\ [][NextExtract]_vars

\* Number of the rows an input row becomes: max(1, n) for n matches.
RowsFor(df, i) ==
    Max({1, Len(AccessionList(df.rows[i][ColIndex(df.columns, ACCESSION_COL)]))})

\* Position before the first row an input row becomes.
Offset(df, i) == SumOver([k \in 1..Len(df.rows) |-> RowsFor(df, k)], 1..(i - 1))

\* C23: after the accession extraction, for every file with an accession
\* column, the row count is the sum over the input rows of max(1, n), n being the
\* number of matches of the row's accession; an input row with n >= 1 matches
\* has become n consecutive rows that carry the matches in match order, one
\* with no match or no accession has become one row with an empty protein
\* name, and every produced row repeats the other cells of its input row.
C23_AccessionExplode ==
    last.op = "extract_names" =>
        \A n \in DOMAIN last.pre :
            LET df == last.pre[n]
                out == dir[n]
            IN  IF ~HasColumn(df.columns, ACCESSION_COL) THEN out = df
                ELSE LET at == ColIndex(df.columns, ACCESSION_COL)
                         new == ColIndex(out.columns, PROTEIN_NAME_COL)
                     IN  /\ Len(out.rows)
                              = SumOver([k \in 1..Len(df.rows) |-> RowsFor(df, k)],
                                        1..Len(df.rows))
                         /\ \A i \in 1..Len(df.rows) :
                                LET matches == AccessionList(df.rows[i][at])
                                IN  \A k \in 1..RowsFor(df, i) :
                                        LET row == out.rows[Offset(df, i) + k]
                                        IN  /\ WithoutCell(row, new) = df.rows[i]
                                            /\ row[new] = IF matches = <<>> THEN NaN
                                                          ELSE matches[k]

\* A file whose first row had two matches and whose second had none has become
\* three rows.
C23_Witness ==
    /\ last.op = "extract_names"
    /\ \E n \in DOMAIN last.pre :
          /\ HasColumn(last.pre[n].columns, ACCESSION_COL)
          /\ Len(last.pre[n].rows) = 2
          /\ Len(AccessionList(last.pre[n].rows[1][2])) = 2
          /\ Len(AccessionList(last.pre[n].rows[2][2])) = 0
          /\ Len(dir[n].rows) = 3

\* ------------------------------------------------ the start of the script
\* The answers to "Is this a pooled analysis? (y/n)", stripped and in lower case.
PoolAnswers == {"y", "yes", "s", "n", "no", ""}

set_pools(answer) == answer \in affirmative_answers

\* set_techs: option 0 gives no technique, option 1 the default list, any other
\* option the list the user types (here: SEC, UC).
set_techs(choose_techniques) ==
    IF choose_techniques = 0 THEN <<>>
    ELSE IF choose_techniques = 1 THEN DefaultTechniques
    ELSE <<sSEC, sUC>>

\* set_analysis: the exit status it ends the script with, 0 when it returns.
set_analysis(var1, var2) == IF ~var1 /\ ~var2 THEN 2 ELSE 0

\* The files the script has written outside the working directory before step
\* 3: analysis_config.txt, absent at first.
NoConfig == [analysis_config |-> NaN]

RunNames == {nSEC_POOL_1, nUC_POOL_1, nSEC, nUC}

\* The script starts with RAW_DATA_DIR filled and the working directory empty.
InitRun ==
    /\ pc = "set_pools"
    /\ todo \in InitDirs(RunNames) \ {<<>>}
    /\ dir = <<>>
    /\ is_pooled = FALSE
    /\ techniques = <<>>
    /\ output = NoConfig
    /\ nops = 0
    /\ last = [op |-> "init", action |-> "none", branch |-> "none", pre |-> dir,
               raised |-> FALSE, file |-> <<>>]
    /\ prev = last

RunStep(op, to) ==
    /\ pc' = to
    /\ last' = [op |-> op, action |-> "none", branch |-> "none", pre |-> dir,
                raised |-> FALSE, file |-> <<>>]
    /\ prev' = last
    /\ UNCHANGED <<todo, nops>>

SetPools ==
    /\ pc = "set_pools"
    /\ \E answer \in PoolAnswers : is_pooled' = set_pools(answer)
    /\ RunStep("set_pools", "set_techs")
    /\ UNCHANGED <<dir, techniques, output>>

SetTechs ==
    /\ pc = "set_techs"
    /\ \E choose_techniques \in 0..2 : techniques' = set_techs(choose_techniques)
    /\ RunStep("set_techs", "write_config")
    /\ UNCHANGED <<dir, is_pooled, output>>

\* with open(.../analysis_config.txt, "w") as f: f.write(analysis_choice)
WriteConfig ==
    /\ pc = "write_config"
    /\ output' = [output EXCEPT !.analysis_config = analysis_choice]
    /\ RunStep("write_config", "set_analysis")
    /\ UNCHANGED <<dir, is_pooled, techniques>>

\* udf.set_analysis(is_pooled, has_techniques, TECHNIQUES): sys.exit(2) ends the
\* script at "exit_2".
SetAnalysis ==
    /\ pc = "set_analysis"
    /\ RunStep("set_analysis",
               IF set_analysis(is_pooled, has_techniques) = 2 THEN "exit_2"
               ELSE "create_input_directory")
    /\ UNCHANGED <<dir, is_pooled, techniques, output>>

\* udf.create_input_directory(RAW_DATA_DIR, INPUT_DIR): every file is copied.
CreateInputDirectory ==
    /\ pc = "create_input_directory"
    /\ dir' = todo
    /\ RunStep("create_input_directory", "preprocess")
    /\ UNCHANGED <<is_pooled, techniques, output>>

NextRun == SetPools \/ SetTechs \/ WriteConfig \/ SetAnalysis \/ CreateInputDirectory

SpecRun == InitRun /\ [][NextRun]_vars

\* C26: a run that is neither pooled nor with techniques has ended with exit
\* status 2 once set_analysis was called, with the working directory still
\* empty and without analysis_config.txt, the persisted analysis-mode code,
\* having been written.
C26_UnsupportedModeWritesNothing ==
    (last.op = "set_analysis" /\ ~is_pooled /\ ~has_techniques) =>
        /\ pc = "exit_2"
        /\ dir = <<>>
        /\ output.analysis_config = NaN

\* What holds of the same runs: the exit with status 2 and the working directory
\* never filled.
UnsupportedModeIsFatal ==
    /\ (last.op = "set_analysis" /\ ~is_pooled /\ ~has_techniques) =>
           (pc = "exit_2" /\ dir = <<>>)
    /\ pc = "exit_2" => (~is_pooled /\ ~has_techniques)
    /\ dir # <<>> => (is_pooled \/ has_techniques)

\* Such a run has ended.
UnsupportedModeReached == pc = "exit_2"

====
